---------------------------- MODULE Spec2Model ----------------------------
(***************************************************************************)
(* A model of budget-export (src/export.py): the heading state machine     *)
(* (_HeadingState), the table dispatcher and parsers (table_from_data,     *)
(* Table and its subclasses), load_word_file and Table.dump_csv.           *)
(*                                                                         *)
(* Texts are TLA+ strings; a character of a text is SubSeq(s, i, i).       *)
(* A Python value that may be None is a tuple: <<>> is None, <<v>> is v.   *)
(* A Python dict is a function whose DOMAIN is the set of its keys.        *)
(* A reference to an object held in a registry or a list is the path of    *)
(* keys or indices that leads to it: the code never removes or replaces an *)
(* object once stored, so a path names one object for the whole run.       *)
(***************************************************************************)
EXTENDS Integers, Sequences, FiniteSets, TLC

VARIABLES
    headings,     \* the _HeadingState object (export.py:466)
    tables,       \* the list of parsed tables (export.py:467)
    pc,           \* where the run is: "run", or "failed" after an exception
    exc,          \* the exception that ended the run ("" while none)
    data,         \* the grid handed to table_from_data / append_data
    result,       \* what the last table construction returned
    written,      \* the rows handed to writer.writerow, with the turn of the
                  \* loop of dump_csv that wrote each
    args,         \* the arguments of the last dump_csv
    lastOp,       \* history: the operation of the last step
    lastText,     \* history: the heading text of the last register_heading
    pre,          \* history: headings and tables as they were before the step
    scenario      \* history: how far the run has followed a fixed heading sequence

vars == <<headings, tables, pc, exc, data, result, written, args, lastOp, lastText,
          pre, scenario>>

None == <<>>
Some(v) == <<v>>
EmptyDict == [k \in {} |-> None]

\* body(v) for v the value of x, worked out once.
Let(x, body(_)) == CHOOSE r \in {body(v) : v \in {x}} : TRUE

(***************************************************************************)
(* Text primitives                                                         *)
(***************************************************************************)
Char(s, i) == SubSeq(s, i, i)

\* The whitespace the inputs are drawn from (Python's \s and strip() know more).
Whitespace == {" ", "\t", "\n"}

Digits == {"0", "1", "2", "3", "4", "5", "6", "7", "8", "9"}

RECURSIVE LStrip(_)
LStrip(s) ==
    IF Len(s) > 0 /\ Char(s, 1) \in Whitespace
    THEN LStrip(SubSeq(s, 2, Len(s)))
    ELSE s

RECURSIVE RStrip(_)
RStrip(s) ==
    IF Len(s) > 0 /\ Char(s, Len(s)) \in Whitespace
    THEN RStrip(SubSeq(s, 1, Len(s) - 1))
    ELSE s

\* unicode.strip()
Strip(s) == RStrip(LStrip(s))

\* The index of the first whitespace character of s at or after i, 0 if none.
RECURSIVE FindWhitespace(_, _)
FindWhitespace(s, i) ==
    IF i > Len(s) THEN 0
    ELSE IF Char(s, i) \in Whitespace THEN i
    ELSE FindWhitespace(s, i + 1)

\* re.split(r'\s+', s, maxsplit): s cut at its runs of whitespace, at most
\* maxsplit times (0: no limit); the rest of the text is the last part.
RECURSIVE ReSplit(_, _, _)
ReSplit(s, maxsplit, done) ==
    LET i == FindWhitespace(s, 1)
    IN  IF i = 0 \/ (maxsplit > 0 /\ done >= maxsplit)
        THEN <<s>>
        ELSE <<SubSeq(s, 1, i - 1)>>
             \o ReSplit(LStrip(SubSeq(s, i, Len(s))), maxsplit, done + 1)

split(s, maxsplit) == ReSplit(Strip(s), maxsplit, 0)

startswith(s, p) == Len(s) >= Len(p) /\ SubSeq(s, 1, Len(p)) = p

\* unicode.isdigit(): non-empty, digits only.
isdigit(s) == Len(s) > 0 /\ \A i \in 1..Len(s) : Char(s, i) \in Digits

\* dict.setdefault(key, default), as the dict it leaves behind.
SetDefault(d, key, default) ==
    IF key \in DOMAIN d THEN d ELSE d @@ (key :> default)

\* unicode.split() with no argument: the non-empty words of s.
StrSplit(s) ==
    LET t == Strip(s) IN IF t = "" THEN <<>> ELSE ReSplit(t, 0, 0)

\* re.sub(r'\s+', ' ', t): every run of whitespace of t becomes one space.
RECURSIVE CollapseWhitespace(_)
CollapseWhitespace(t) ==
    LET i == FindWhitespace(t, 1)
    IN  IF i = 0 THEN t
        ELSE SubSeq(t, 1, i - 1) \o " "
             \o CollapseWhitespace(LStrip(SubSeq(t, i, Len(t))))

clean_string(s) == CollapseWhitespace(Strip(s))

UpperCase == "ABCDEFGHIJKLMNOPQRSTUVWXYZ"
LowerCase == "abcdefghijklmnopqrstuvwxyz"

UpperCaseLetters == {Char(UpperCase, i) : i \in 1..Len(UpperCase)}
LowerCaseOf ==
    [c \in UpperCaseLetters |->
        Char(LowerCase, CHOOSE i \in 1..Len(UpperCase) : Char(UpperCase, i) = c)]

LowerChar(c) == IF c \in UpperCaseLetters THEN LowerCaseOf[c] ELSE c

\* unicode.lower(), on the letters the inputs are drawn from.
RECURSIVE lower(_)
lower(s) ==
    IF s = "" THEN "" ELSE LowerChar(Char(s, 1)) \o lower(SubSeq(s, 2, Len(s)))

\* sub in s
Contains(s, sub) ==
    \E i \in 1..(Len(s) - Len(sub) + 1) : SubSeq(s, i, i + Len(sub) - 1) = sub

\* The index of the first occurrence of character c in s, 0 if none.
RECURSIVE FindChar(_, _, _)
FindChar(s, c, i) ==
    IF i > Len(s) THEN 0
    ELSE IF Char(s, i) = c THEN i
    ELSE FindChar(s, c, i + 1)

\* s.split(c): s cut at every occurrence of character c.
RECURSIVE SplitAt(_, _)
SplitAt(s, c) ==
    LET i == FindChar(s, c, 1)
    IN  IF i = 0 THEN <<s>>
        ELSE <<SubSeq(s, 1, i - 1)>> \o SplitAt(SubSeq(s, i + 1, Len(s)), c)

\* s.split(c, 1): s cut at the first occurrence of character c.
SplitOnce(s, c) ==
    LET i == FindChar(s, c, 1)
    IN  IF i = 0 THEN <<s>>
        ELSE <<SubSeq(s, 1, i - 1), SubSeq(s, i + 1, Len(s))>>

\* s.replace(c, ''): s without character c.
RECURSIVE Remove(_, _)
Remove(s, c) ==
    IF s = "" THEN ""
    ELSE (IF Char(s, 1) = c THEN "" ELSE Char(s, 1))
         \o Remove(SubSeq(s, 2, Len(s)), c)

DigitValue(c) == CHOOSE d \in 0..9 : Char("0123456789", d + 1) = c

\* The number a text of digits writes ("" writes 0).
RECURSIVE DigitsValue(_)
DigitsValue(s) ==
    IF s = "" THEN 0
    ELSE 10 * DigitsValue(SubSeq(s, 1, Len(s) - 1)) + DigitValue(Char(s, Len(s)))

HasSign(s) == Len(s) > 0 /\ Char(s, 1) \in {"+", "-"}
Unsigned(s) == IF HasSign(s) THEN SubSeq(s, 2, Len(s)) ELSE s
SignOf(s) == IF Len(s) > 0 /\ Char(s, 1) = "-" THEN -1 ELSE 1

\* An outcome of a call: exc is the exception raised ("" if none), value
\* what the call returned or, after an exception, what it had built so far.
Return(v) == [exc |-> "", value |-> v]
Raise(e, v) == [exc |-> e, value |-> v]

\* int(s): an optional sign, then digits; anything else is a ValueError.
int(s) ==
    Let(Strip(s), LAMBDA t :
        Let(Unsigned(t), LAMBDA digits :
            IF isdigit(digits)
            THEN Return(SignOf(t) * DigitsValue(digits))
            ELSE Raise("ValueError", None)))

\* parse_int that reads a text that is no number as None.
parse_int_lenient(s) ==
    IF s = "" THEN Return(None)
    ELSE Let(int(s), LAMBDA r :
             IF r.exc # "" THEN Return(None) ELSE Return(Some(r.value)))

\* parse_int: None for the empty text, else int(s).
parse_int(s) ==
    IF s = "" THEN Return(None)
    ELSE Let(int(s), LAMBDA r :
             IF r.exc # "" THEN r ELSE Return(Some(r.value)))

\* s.ljust(2, '0')[:2]
PadCents(s) == SubSeq(s \o "00", 1, 2)

\* Decimal(whole + '.' + cents), in hundredths. Decimal() takes an optional
\* sign, digits, a point and digits, with a digit somewhere; any other text
\* the inputs hold raises decimal.InvalidOperation.
Decimal(whole, cents) ==
    Let(Unsigned(whole), LAMBDA digits :
        IF /\ \A i \in 1..Len(digits) : Char(digits, i) \in Digits
           /\ isdigit(cents)
        THEN Return(SignOf(whole) * (100 * DigitsValue(digits) + DigitsValue(cents)))
        ELSE Raise("InvalidOperation", None))

\* parse_amount: the amount in hundredths.
parse_amount(s) ==
    Let(SplitAt(Remove(s, "."), ","), LAMBDA parts :
        IF Len(parts) = 1 THEN Decimal(parts[1], "00")
        ELSE IF Len(parts) = 2 THEN Decimal(parts[1], PadCents(parts[2]))
        ELSE Raise("InvalidOperation", None))

(***************************************************************************)
(* _HeadingState                                                           *)
(***************************************************************************)
\* _HeadingState.__init__: reset(), then an empty registry.
NewHeadingState ==
    [teilhaushalt |-> None, produktbereich |-> None, produktgruppe |-> None,
     teilhaushalte |-> EmptyDict]

\* reset that empties the registry as well.
reset_with_registry(hs) == NewHeadingState

\* reset that forgets the current Teilhaushalt alone.
reset_teilhaushalt_only(hs) == [hs EXCEPT !.teilhaushalt = None]

\* _HeadingState.reset
reset(hs) ==
    [hs EXCEPT !.teilhaushalt = None, !.produktbereich = None,
               !.produktgruppe = None]

\* The THH branch with the title of a known entry overwritten.
EnterTeilhaushaltOverwrite(hs, id, title) ==
    [hs EXCEPT
        !.teilhaushalte =
            IF id \in DOMAIN @
            THEN [@ EXCEPT ![id].title = title]
            ELSE @ @@ (id :> [id |-> id, title |-> title,
                              produktbereiche |-> EmptyDict]),
        !.teilhaushalt = <<id>>,
        !.produktbereich = None,
        !.produktgruppe = None]

\* The THH branch that keeps the finer levels when the Teilhaushalt entered
\* is the current one.
EnterTeilhaushaltKeepFiner(hs, id, title) ==
    [hs EXCEPT
        !.teilhaushalte =
            SetDefault(@, id, [id |-> id, title |-> title,
                               produktbereiche |-> EmptyDict]),
        !.teilhaushalt = <<id>>,
        !.produktbereich = IF hs.teilhaushalt = <<id>> THEN @ ELSE None,
        !.produktgruppe = IF hs.teilhaushalt = <<id>> THEN @ ELSE None]

\* The THH branch: id is the identifier with the prefix already cut off.
EnterTeilhaushalt(hs, id, title) ==
    [hs EXCEPT
        !.teilhaushalte =
            SetDefault(@, id, [id |-> id, title |-> title,
                               produktbereiche |-> EmptyDict]),
        !.teilhaushalt = <<id>>,
        !.produktbereich = None,
        !.produktgruppe = None]

\* The Produktbereich condition without "self.produktbereich is None".
IsProduktbereichHeadingAnyTime(hs, id) ==
    /\ hs.teilhaushalt # None
    /\ Len(id) = 2
    /\ isdigit(id)

IsProduktbereichHeading(hs, id) ==
    /\ hs.teilhaushalt # None
    /\ hs.produktbereich = None
    /\ Len(id) = 2
    /\ isdigit(id)

EnterProduktbereich(hs, id, title) ==
    LET thh == hs.teilhaushalt[1]
    IN  [hs EXCEPT
            !.teilhaushalte[thh].produktbereiche =
                SetDefault(@, id, [id |-> id, title |-> title,
                                   produktgruppen |-> EmptyDict]),
            !.produktbereich = <<thh, id>>,
            !.produktgruppe = None]

\* The Produktgruppe condition without "len(id) == 4".
IsProduktgruppeHeadingAnyLength(hs, id) ==
    /\ hs.produktbereich # None
    /\ hs.produktgruppe = None
    /\ isdigit(id)

IsProduktgruppeHeading(hs, id) ==
    /\ hs.produktbereich # None
    /\ hs.produktgruppe = None
    /\ Len(id) = 4
    /\ isdigit(id)

EnterProduktgruppe(hs, id, title) ==
    LET thh == hs.produktbereich[1]
        pb  == hs.produktbereich[2]
    IN  [hs EXCEPT
            !.teilhaushalte[thh].produktbereiche[pb].produktgruppen =
                SetDefault(@, id, [id |-> id, title |-> title]),
            !.produktgruppe = <<thh, pb, id>>]

\* The identifier left uncut.
TeilhaushaltIdKeepPrefix(id) == id

\* id[3:]
TeilhaushaltId(id) == SubSeq(id, 4, Len(id))

\* _HeadingState.register_heading, as the state it leaves behind.
register_heading(hs, text0) ==
    LET text == Strip(text0)
    IN  IF text = "" THEN hs
        ELSE LET parts == split(text, 1)
             IN  IF Len(parts) # 2 THEN hs
                 ELSE LET id    == parts[1]
                          title == parts[2]
                      IN  IF startswith(id, "THH")
                          THEN EnterTeilhaushalt(hs, TeilhaushaltId(id), title)
                          ELSE IF IsProduktbereichHeading(hs, id)
                          THEN EnterProduktbereich(hs, id, title)
                          ELSE IF IsProduktgruppeHeading(hs, id)
                          THEN EnterProduktgruppe(hs, id, title)
                          ELSE hs

\* The objects the three references of a heading state point to.
CurrentTeilhaushalt(hs) == hs.teilhaushalte[hs.teilhaushalt[1]]
CurrentProduktbereich(hs) ==
    hs.teilhaushalte[hs.produktbereich[1]].produktbereiche[hs.produktbereich[2]]
CurrentProduktgruppe(hs) ==
    hs.teilhaushalte[hs.produktgruppe[1]].produktbereiche[hs.produktgruppe[2]]
        .produktgruppen[hs.produktgruppe[3]]

(***************************************************************************)
(* Table and its subclasses                                                *)
(*                                                                         *)
(* A grid is a sequence of rows, a row a sequence of cell texts. Columns   *)
(* are numbered from 0 as in the source: Cell(row, i) is row[i].           *)
(* _meta_columns and _value_columns are the sequences of their entries in  *)
(* ascending column order, the order in which iteritems() yields keys that *)
(* are small integers. A field of a record holds <<v>>, or <<>> for None;  *)
(* a dict of the source is a function from its keys.                       *)
(***************************************************************************)
Cell(row, i) == row[i + 1]
HasCell(row, i) == i + 1 \in 1..Len(row)

\* row[start:], as the column numbers it holds
ColumnsFrom(row, start) == {i \in 0..(Len(row) - 1) : i >= start}

KONTOGRUPPE_HEADER == "Kto.\nGr."
CURRENCY == "EUR"
SUMMARY_SIGN == "="

\* Truth of a field value: None, '' and 0 are false.
TruthyText(v) == v # None /\ v[1] # ""
TruthyInt(v) == v # None /\ v[1] # 0

\* dict.get(key)
Get(record, key) == IF key \in DOMAIN record THEN record[key] ELSE None

\* The dict without key (dict.pop, as the dict it leaves behind).
Without(record, key) == [k \in DOMAIN record \ {key} |-> record[k]]

\* ErgebnishaushaltTable._parse_meta_headers with the Kontogruppe column
\* taken to be there whatever the header says.
ErgebnishaushaltMetaHeadersAlwaysKontogruppe(header) ==
    Return(<<[col |-> 0, key |-> "number", transform |-> "parse_int"],
             [col |-> 1, key |-> "kontogruppe", transform |-> ""],
             [col |-> 2, key |-> "sign", transform |-> ""],
             [col |-> 3, key |-> "title", transform |-> "clean_string"]>>)

\* ErgebnishaushaltTable._parse_meta_headers
ErgebnishaushaltMetaHeaders(header) ==
    IF ~HasCell(header, 1) THEN Raise("IndexError", <<>>)
    ELSE IF Cell(header, 1) = KONTOGRUPPE_HEADER
    THEN Return(<<[col |-> 0, key |-> "number", transform |-> "parse_int"],
                  [col |-> 1, key |-> "kontogruppe", transform |-> ""],
                  [col |-> 2, key |-> "sign", transform |-> ""],
                  [col |-> 3, key |-> "title", transform |-> "clean_string"]>>)
    ELSE Return(<<[col |-> 0, key |-> "number", transform |-> "parse_int"],
                  [col |-> 1, key |-> "sign", transform |-> ""],
                  [col |-> 2, key |-> "title", transform |-> "clean_string"]>>)

\* FinanzhaushaltTable._parse_meta_headers, InvestitionsuebersichtTable._parse_meta_headers
ThreeMetaHeaders(header) ==
    Return(<<[col |-> 0, key |-> "number", transform |-> "parse_int"],
             [col |-> 1, key |-> "sign", transform |-> ""],
             [col |-> 2, key |-> "title", transform |-> "clean_string"]>>)

_parse_meta_headers(cls, header) ==
    IF cls = "ErgebnishaushaltTable"
    THEN ErgebnishaushaltMetaHeaders(header)
    ELSE ThreeMetaHeaders(header)

\* The test of a value column without the currency marker.
IsValueHeaderAnyCurrency(parts) == Len(parts) = 3

\* (len(parts) == 3) and (parts[2] == 'EUR')
IsValueHeader(parts) == Len(parts) = 3 /\ parts[3] = CURRENCY

\* Table._parse_value_headers: the entry of column i, if it gets one.
ValueHeader(header, i) ==
    Let(StrSplit(Cell(header, i)), LAMBDA parts :
        IF ~IsValueHeader(parts) THEN <<>>
        ELSE Let(parse_int(parts[2]), LAMBDA year :
                 IF year.exc # "" THEN <<>>
                 ELSE <<[col |-> i, type |-> clean_string(parts[1]),
                         year |-> year.value[1]]>>))

\* Table._parse_value_headers: the loop from column i on.
RECURSIVE ValueHeadersFrom(_, _)
ValueHeadersFrom(header, i) ==
    IF ~HasCell(header, i) THEN <<>>
    ELSE ValueHeader(header, i) \o ValueHeadersFrom(header, i + 1)

_parse_value_headers(meta_columns, header) ==
    ValueHeadersFrom(header, Len(meta_columns))

\* Table._parse_headers: the meta columns, then the value columns.
_parse_headers(cls, header) ==
    Let(_parse_meta_headers(cls, header), LAMBDA meta :
        IF meta.exc # ""
        THEN Raise(meta.exc, [meta_columns |-> <<>>, value_columns |-> <<>>])
        ELSE Return([meta_columns  |-> meta.value,
                     value_columns |-> _parse_value_headers(meta.value, header)]))

\* transform(value)
Transform(transform, value) ==
    IF transform = "parse_int" THEN parse_int(value)
    ELSE IF transform = "clean_string" THEN Return(Some(clean_string(value)))
    ELSE Return(Some(value))

\* Table._parse_row, first loop: the meta columns from entry k on.
RECURSIVE ParseMetaFrom(_, _, _, _)
ParseMetaFrom(meta_columns, row, k, record) ==
    IF k > Len(meta_columns) THEN Return(record)
    ELSE LET m == meta_columns[k]
         IN  IF ~HasCell(row, m.col) THEN Raise("IndexError", record)
             ELSE Let(Transform(m.transform, Cell(row, m.col)), LAMBDA v :
                      IF v.exc # "" THEN Raise(v.exc, record)
                      ELSE ParseMetaFrom(meta_columns, row, k + 1,
                                         record @@ (m.key :> v.value)))

\* Table._parse_row, second loop: the value columns from entry k on.
RECURSIVE ParseValuesFrom(_, _, _, _)
ParseValuesFrom(value_columns, row, k, values) ==
    IF k > Len(value_columns) THEN Return(values)
    ELSE LET c == value_columns[k]
         IN  IF ~HasCell(row, c.col) THEN Raise("IndexError", values)
             ELSE Let(parse_amount(Cell(row, c.col)), LAMBDA a :
                      IF a.exc # "" THEN Raise(a.exc, values)
                      ELSE ParseValuesFrom(value_columns, row, k + 1,
                               Append(values, [type |-> c.type, year |-> c.year,
                                               amount |-> a.value])))

\* Table._parse_row
BaseParseRow(hdr, row) ==
    Let(ParseMetaFrom(hdr.meta_columns, row, 1, EmptyDict), LAMBDA meta :
        IF meta.exc # "" THEN meta
        ELSE Let(ParseValuesFrom(hdr.value_columns, row, 1, <<>>), LAMBDA values :
                 IF values.exc # "" THEN Raise(values.exc, meta.value)
                 ELSE Return(meta.value @@ ("values" :> values.value))))

\* _parse_row without the setdefault of ErgebnishaushaltTable.
ParseRowNoDefault(cls, hdr, row) == BaseParseRow(hdr, row)

\* self._parse_row(row): Table._parse_row, and in ErgebnishaushaltTable
\* record.setdefault('kontogruppe', None) after it.
_parse_row(cls, hdr, row) ==
    Let(BaseParseRow(hdr, row), LAMBDA r :
        IF r.exc = "" /\ cls = "ErgebnishaushaltTable"
        THEN Return(SetDefault(r.value, "kontogruppe", None))
        ELSE r)

\* Table._does_row_have_values: exc is IndexError when the row ends before a
\* value column that had to be read.
RECURSIVE RowHasValuesFrom(_, _, _)
RowHasValuesFrom(value_columns, row, k) ==
    IF k > Len(value_columns) THEN Return(FALSE)
    ELSE IF ~HasCell(row, value_columns[k].col) THEN Raise("IndexError", FALSE)
    ELSE IF Cell(row, value_columns[k].col) # "" THEN Return(TRUE)
    ELSE RowHasValuesFrom(value_columns, row, k + 1)

\* A test that takes every row to have values.
_does_row_have_values_always(hdr, row) == Return(TRUE)

_does_row_have_values(hdr, row) == RowHasValuesFrom(hdr.value_columns, row, 1)

\* The state of the loop of Table._parse: the positions appended to self so
\* far and the local position (None, or <<i>> for the i-th of them).
\* One turn of the loop, for a row that has values and parsed to record.
ParseRecord(acc, record) ==
    IF TruthyInt(record.number)
    THEN IF ~TruthyText(record.sign)
         THEN Return([acc EXCEPT !.position = None])
         ELSE Return([items    |-> Append(acc.items, record @@ ("children" :> <<>>)),
                      position |-> Some(Len(acc.items) + 1)])
    ELSE IF TruthyText(record.sign) THEN Raise("AssertionError", acc)
    ELSE IF acc.position = None THEN Raise("TypeError", acc)
    ELSE Return([acc EXCEPT !.items[acc.position[1]].children = Append(@, record)])

\* The turn for a row that has values.
ParseRowWithValues(cls, hdr, row, acc) ==
    Let(_parse_row(cls, hdr, row), LAMBDA r :
        IF r.exc # "" THEN Raise(r.exc, acc) ELSE ParseRecord(acc, r.value))

\* One turn of the loop that keeps the position across a dropped row.
ParseStepKeepPosition(cls, hdr, row, acc) ==
    LET has == _does_row_have_values(hdr, row)
    IN  IF has.exc # "" THEN Raise(has.exc, acc)
        ELSE IF ~has.value THEN Return(acc)
        ELSE ParseRowWithValues(cls, hdr, row, acc)

\* One turn of the loop of Table._parse.
ParseStep(cls, hdr, row, acc) ==
    LET has == _does_row_have_values(hdr, row)
    IN  IF has.exc # "" THEN Raise(has.exc, acc)
        ELSE IF ~has.value THEN Return([acc EXCEPT !.position = None])
        ELSE ParseRowWithValues(cls, hdr, row, acc)

RECURSIVE ParseRowsFrom(_, _, _, _, _)
ParseRowsFrom(cls, hdr, rows, k, acc) ==
    IF k > Len(rows) THEN Return(acc)
    ELSE Let(ParseStep(cls, hdr, rows[k], acc), LAMBDA step :
             IF step.exc # "" THEN step
             ELSE ParseRowsFrom(cls, hdr, rows, k + 1, step.value))

\* data[start:], start counted from 0
RowsFrom(grid, start) == SubSeq(grid, start + 1, Len(grid))

\* Table._parse: the positions of the table.
_parse(cls, hdr, grid) ==
    Let(ParseRowsFrom(cls, hdr, RowsFrom(grid, 2), 1,
                      [items |-> <<>>, position |-> None]), LAMBDA r :
        [exc |-> r.exc, value |-> r.value.items])

\* len(set(row)) == 1
IsMarkerRow(row) == Len(row) >= 1 /\ \A i \in 1..Len(row) : row[i] = row[1]

\* The state of the loop of _parse_body: the projects of self, the local
\* project (None or <<i>>) and the local position (None or <<i, j>>: the j-th
\* position of the i-th project).
\* A marker row: a new project is appended and becomes the local project.
OpenProject(acc, row) ==
    Let(SplitOnce(Cell(row, 0), ":"), LAMBDA parts :
        IF Len(parts) < 2 THEN Raise("IndexError", acc)
        ELSE Return([acc EXCEPT
                 !.items = Append(@, [id |-> Strip(parts[1]),
                                      title |-> Strip(parts[2]),
                                      positions |-> <<>>]),
                 !.project = Some(Len(acc.items) + 1)]))

\* A row with a number: a new position of the local project.
BodyPosition(acc, record) ==
    IF ~TruthyText(record.sign) THEN Raise("AssertionError", acc)
    ELSE IF acc.project = None THEN Raise("TypeError", acc)
    ELSE LET p == acc.project[1]
         IN  Return([acc EXCEPT
                 !.items[p].positions =
                     Append(@, record @@ ("children" :> <<>>)),
                 !.position = <<p, Len(acc.items[p].positions) + 1>>])

\* A row without a number: a child of the local position.
BodyChild(acc, record) ==
    IF TruthyText(Get(record, "sign")) THEN Raise("AssertionError", acc)
    ELSE IF TruthyText(Get(record, "kontogruppe")) THEN Raise("AssertionError", acc)
    ELSE IF acc.position = None THEN Raise("TypeError", acc)
    ELSE Return([acc EXCEPT
             !.items[acc.position[1]].positions[acc.position[2]].children =
                 Append(@, Without(Without(record, "sign"), "kontogruppe"))])

\* One turn of the loop of InvestitionsuebersichtTable._parse_body.
BodyStep(hdr, row, acc) ==
    IF IsMarkerRow(row) THEN OpenProject(acc, row)
    ELSE Let(BaseParseRow(hdr, row), LAMBDA r :
             IF r.exc # "" THEN Raise(r.exc, acc)
             ELSE IF TruthyInt(r.value.number)
             THEN BodyPosition(acc, r.value)
             ELSE BodyChild(acc, r.value))

RECURSIVE BodyRowsFrom(_, _, _, _)
BodyRowsFrom(hdr, rows, k, acc) ==
    IF k > Len(rows) THEN Return(acc)
    ELSE Let(BodyStep(hdr, rows[k], acc), LAMBDA step :
             IF step.exc # "" THEN step
             ELSE BodyRowsFrom(hdr, rows, k + 1, step.value))

\* The body parser from row first on, on a table whose projects are items.
ParseBodyFrom(hdr, rows, first, items) ==
    Let(BodyRowsFrom(hdr, rows, first,
                     [items |-> items, project |-> None, position |-> None]),
        LAMBDA r : [exc |-> r.exc, value |-> r.value.items])

\* A body parser that takes the first row of the grid for a header.
_parse_body_skip_first(hdr, rows, items) == ParseBodyFrom(hdr, rows, 2, items)

\* InvestitionsuebersichtTable._parse_body on a table whose projects are
\* items: the projects it leaves in the table.
_parse_body(hdr, rows, items) == ParseBodyFrom(hdr, rows, 1, items)

\* The parser of class cls on the rows of the grid: _parse_body(data[2:]) in
\* InvestitionsuebersichtTable._parse, the loop of Table._parse in the others.
ParseBodyOf(cls, hdr, grid) ==
    IF cls = "InvestitionsuebersichtTable"
    THEN _parse_body(hdr, RowsFrom(grid, 2), <<>>)
    ELSE _parse(cls, hdr, grid)

\* The table object after a _parse that left items.
TableOf(cls, hdr, items) ==
    [cls |-> cls,
     meta_columns |-> hdr.meta_columns,
     value_columns |-> hdr.value_columns,
     items |-> items,
     teilhaushalt |-> None,
     produktbereich |-> None,
     produktgruppe |-> None]

\* Table.__init__ for class cls: _parse(data), then the three tags unset.
NewTable(cls, grid) ==
    Let(_parse_headers(cls, grid[1]), LAMBDA hdr :
        IF hdr.exc # "" THEN Raise(hdr.exc, None)
        ELSE Let(ParseBodyOf(cls, hdr.value, grid), LAMBDA body :
                 IF body.exc # "" THEN Raise(body.exc, None)
                 ELSE Return(TableOf(cls, hdr.value, body.value))))

\* A continuation that starts the table over with the projects of the grid.
append_data_fresh(table, grid) ==
    IF table.cls # "InvestitionsuebersichtTable"
    THEN Raise("AttributeError", table)
    ELSE Let(_parse_body([meta_columns |-> table.meta_columns,
                          value_columns |-> table.value_columns],
                         grid, <<>>), LAMBDA body :
             [exc |-> body.exc, value |-> [table EXCEPT !.items = body.value]])

\* tables[-1].append_data(data): the table it leaves behind. Only an
\* InvestitionsuebersichtTable has the method.
append_data(table, grid) ==
    IF table.cls # "InvestitionsuebersichtTable"
    THEN Raise("AttributeError", table)
    ELSE Let(_parse_body([meta_columns |-> table.meta_columns,
                          value_columns |-> table.value_columns],
                         grid, table.items), LAMBDA body :
             [exc |-> body.exc, value |-> [table EXCEPT !.items = body.value]])

FINANZHAUSHALT == "finanzhaushalt"
INVESTITIONSUEBERSICHT == "investitionsübersicht"
ERGEBNISHAUSHALT == "ergebnishaushalt"

\* The if-chain of table_from_data: the class it constructs, or the
\* exception it raises before it constructs one.
Classify(grid) ==
    IF Len(grid) = 0 THEN Raise("IndexError", "")
    ELSE IF ~HasCell(grid[1], 2) THEN Raise("IndexError", "")
    ELSE IF Contains(lower(Cell(grid[1], 2)), FINANZHAUSHALT)
    THEN Return("FinanzhaushaltTable")
    ELSE IF Contains(lower(Cell(grid[1], 2)), INVESTITIONSUEBERSICHT)
    THEN Return("InvestitionsuebersichtTable")
    ELSE IF Contains(lower(Cell(grid[1], 2)), ERGEBNISHAUSHALT)
    THEN Return("ErgebnishaushaltTable")
    ELSE IF ~HasCell(grid[1], 3) THEN Raise("IndexError", "")
    ELSE IF Contains(lower(Cell(grid[1], 3)), ERGEBNISHAUSHALT)
    THEN Return("ErgebnishaushaltTable")
    ELSE Raise("ValueError", "")

table_from_data(grid) ==
    Let(Classify(grid), LAMBDA c :
        IF c.exc # "" THEN Raise(c.exc, None) ELSE NewTable(c.value, grid))

(***************************************************************************)
(* Table.dump_csv                                                          *)
(***************************************************************************)
\* Truth of the value of field key: the number is an int, the others texts.
TruthyField(key, v) == IF key = "number" THEN TruthyInt(v) ELSE TruthyText(v)

\* The concatenation of a sequence of sequences.
RECURSIVE Concat(_)
Concat(qs) == IF qs = <<>> THEN <<>> ELSE Head(qs) \o Concat(Tail(qs))

\* Table._csv_records: the records of the table itself.
BaseCsvRecords(table) == table.items

\* InvestitionsuebersichtTable._csv_records: a copy of each position of each
\* project, with the id and the title of the project.
InvestitionCsvRecords(table) ==
    Concat([p \in 1..Len(table.items) |->
        [i \in 1..Len(table.items[p].positions) |->
            table.items[p].positions[i]
                @@ ("project_id" :> Some(table.items[p].id))
                @@ ("project_title" :> Some(table.items[p].title))]])

_csv_records(table) ==
    IF table.cls = "InvestitionsuebersichtTable"
    THEN InvestitionCsvRecords(table)
    ELSE BaseCsvRecords(table)

\* The field for key with the title of a child left as it is.
DumpFieldPlainTitle(record, parent, key, include_summaries) ==
    LET value == Get(record, key)
    IN  IF ~TruthyField(key, value) /\ ~include_summaries /\ parent # None
        THEN Get(parent[1], key)
        ELSE value

\* dump_record, the loop over meta_columns: the field for key. parent is None
\* or the parent record.
DumpField(record, parent, key, include_summaries) ==
    LET value == Get(record, key)
    IN  IF ~TruthyField(key, value) /\ ~include_summaries /\ parent # None
        THEN Get(parent[1], key)
        ELSE IF key = "title" /\ ~include_summaries /\ parent # None
        THEN Some(parent[1].title[1] \o ": " \o value[1])
        ELSE value

\* dump_record: the rows it hands to writer.writerow, one per value.
dump_record(record, parent, additional_columns, meta_columns, include_summaries) ==
    LET fields == additional_columns
                  \o [k \in 1..Len(meta_columns) |->
                         DumpField(record, parent, meta_columns[k],
                                   include_summaries)]
    IN  [i \in 1..Len(record.values) |->
            fields \o <<Some(record.values[i].year),
                        Some(record.values[i].type),
                        Some(record.values[i].amount)>>]

\* The rows of the children of record, in their order.
DumpChildren(record, additional_columns, meta_columns, include_summaries) ==
    Concat([c \in 1..Len(record.children) |->
        dump_record(record.children[c], Some(record), additional_columns,
                    meta_columns, include_summaries)])

\* A turn of the loop that dumps the record before its children whatever
\* include_summaries is.
DumpTurnWithParent(record, additional_columns, meta_columns, include_summaries) ==
    IF record.sign = Some(SUMMARY_SIGN) /\ ~include_summaries THEN <<>>
    ELSE IF record.children # <<>>
    THEN dump_record(record, None, additional_columns, meta_columns,
                     include_summaries)
         \o DumpChildren(record, additional_columns, meta_columns,
                         include_summaries)
    ELSE dump_record(record, None, additional_columns, meta_columns,
                     include_summaries)

\* A turn of the loop that never skips a record for its sign.
DumpTurnKeepSummaries(record, additional_columns, meta_columns, include_summaries) ==
    IF record.children # <<>>
    THEN (IF include_summaries
          THEN dump_record(record, None, additional_columns, meta_columns,
                           include_summaries)
          ELSE <<>>)
         \o DumpChildren(record, additional_columns, meta_columns,
                         include_summaries)
    ELSE dump_record(record, None, additional_columns, meta_columns,
                     include_summaries)

\* One turn of the loop of dump_csv: the rows written for record.
DumpTurn(record, additional_columns, meta_columns, include_summaries) ==
    IF record.sign = Some(SUMMARY_SIGN) /\ ~include_summaries THEN <<>>
    ELSE IF record.children # <<>>
    THEN (IF include_summaries
          THEN dump_record(record, None, additional_columns, meta_columns,
                           include_summaries)
          ELSE <<>>)
         \o DumpChildren(record, additional_columns, meta_columns,
                         include_summaries)
    ELSE dump_record(record, None, additional_columns, meta_columns,
                     include_summaries)

\* The default of meta_columns: the keys of self._meta_columns, a dict keyed
\* by the column numbers, which itervalues() walks in ascending order.
DefaultMetaColumns(table) ==
    [k \in 1..Len(table.meta_columns) |-> table.meta_columns[k].key]

\* Table.dump_csv: the rows written, each with the turn of the loop over
\* _csv_records() that wrote it. additional_columns and meta_columns are
\* None or a list.
dump_csv(table, additional_columns, meta_columns, include_summaries) ==
    LET ac == IF additional_columns = None THEN <<>> ELSE additional_columns[1]
        mc == IF meta_columns = None THEN DefaultMetaColumns(table)
              ELSE meta_columns[1]
        records == _csv_records(table)
    IN  Concat([k \in 1..Len(records) |->
            LET rows == DumpTurn(records[k], ac, mc, include_summaries)
            IN  [i \in 1..Len(rows) |-> [turn |-> k, row |-> rows[i]]]])

(***************************************************************************)
(* The heading texts the heading state machine is run on                   *)
(***************************************************************************)
ScenarioHeadings == <<"THH 01 Bildung", "02 Schulen", "0201 Grundschulen">>
GluedScenarioHeadings == <<"THH01 Bildung", "02 Schulen", "0201 Grundschulen">>

HeadingTexts ==
    { "THH 01 Bildung", "THH01 Bildung", "THH01 Kultur",
      "02 Schulen", " 02 \t Schulen ", "99 Sonstiges",
      "0201 Grundschulen",
      "", " \t", "Vorwort", "ab Anhang", "123 Drei" }

\* How far the headings registered since construction follow seq: n after its
\* first n headings and nothing else, -1 once the run has left it.
Follow(n, seq, text) ==
    IF n >= 0 /\ n < Len(seq) /\ text = seq[n + 1] THEN n + 1 ELSE -1

(***************************************************************************)
(* The heading state machine on its own                                    *)
(***************************************************************************)
InitCommon ==
    /\ headings = NewHeadingState
    /\ tables = <<>>
    /\ pc = "run"
    /\ exc = ""
    /\ data = <<>>
    /\ result = None
    /\ written = <<>>
    /\ args = None
    /\ lastOp = "init"
    /\ lastText = ""
    /\ pre = [headings |-> NewHeadingState, tables |-> <<>>]
    /\ scenario = [spec |-> 0, glued |-> 0]

InitHeading == InitCommon

\* headings.reset()
Reset ==
    /\ pc = "run"
    /\ headings' = reset(headings)
    /\ lastOp' = "reset"
    /\ lastText' = ""
    /\ pre' = [headings |-> headings, tables |-> tables]
    /\ scenario' = [spec |-> -1, glued |-> -1]
    /\ UNCHANGED <<tables, pc, exc, data, result, written, args>>

\* headings.register_heading(text)
RegisterHeading(text) ==
    /\ pc = "run"
    /\ headings' = register_heading(headings, text)
    /\ lastOp' = "register_heading"
    /\ lastText' = text
    /\ pre' = [headings |-> headings, tables |-> tables]
    /\ scenario' = [spec  |-> Follow(scenario.spec, ScenarioHeadings, text),
                    glued |-> Follow(scenario.glued, GluedScenarioHeadings, text)]
    /\ UNCHANGED <<tables, pc, exc, data, result, written, args>>

NextHeading ==
    \/ Reset
    \/ \E text \in HeadingTexts : RegisterHeading(text)

SpecHeading == InitHeading /\ [][NextHeading]_vars

(***************************************************************************)
(* The grids the dispatcher and the table parsers are run on               *)
(***************************************************************************)
\* The most data rows of a grid.
MaxRows == 2

\* The sequences of at most n elements of set.
RECURSIVE SeqsUpTo(_, _)
SeqsUpTo(set, n) ==
    IF n = 0 THEN {<<>>}
    ELSE LET shorter == SeqsUpTo(set, n - 1)
         IN  shorter \cup {Append(q, x) : q \in {r \in shorter : Len(r) = n - 1},
                                          x \in set}

\* Header rows of five cells. The keyword cell is cell 2, or cell 3 where the
\* Kontogruppe column shifts the title.
Headers5 ==
    { <<"Nr.", "", "Teilfinanzhaushalt", "Ansatz 2015 EUR", "Ergebnis 2014 EUR">>,
      <<"Nr.", "", "Investitionsübersicht", "Ansatz 2015 EUR", "Plan 2016 EUR">>,
      <<"Nr.", "", "Gesamtergebnishaushalt", "Ansatz 2015 EUR", "Ergebnis 2014 EUR">>,
      <<"Nr.", "Kto.\nGr.", "", "Teilergebnishaushalt", "Ansatz  2015 EUR">>,
      \* no value column: two words, a year that is no number, another currency
      <<"Nr.", "", "FINANZHAUSHALT", "Ansatz 2015", "Plan x EUR">>,
      <<"Nr.", "", "Investitionsübersicht", "2015 EUR", "Plan 2016 Euro">>,
      <<"Nr.", "", "ErgebnisHaushalt", "Ansatz", "">>,
      \* two keywords
      <<"Nr.", "", "Finanzhaushalt und Investitionsübersicht", "Ansatz 2015 EUR", "">>,
      <<"Nr.", "", "Investitionsübersicht", "Ergebnishaushalt 2015 EUR", "Plan 2016 EUR">>,
      \* no keyword in a candidate cell
      <<"Nr.", "", "Titel", "Finanzhaushalt 2015 EUR", "Plan 2016 EUR">>,
      <<"P2: Bruecke", "P2: Bruecke", "P2: Bruecke", "P2: Bruecke", "P2: Bruecke">> }

\* Data rows of five cells: number, sign, title and two amounts, or number,
\* Kontogruppe, sign, title and one amount.
Rows5 ==
    { <<"1", "+", "Steuern", "1.234,56", "12,5">>,
      <<"", "", "davon  Grundsteuer", "7", "">>,
      <<"2", "=", "Summe", "1,00", "2,00">>,
      <<"3", "", "Ohne Vorzeichen", "1,00", "">>,
      <<"", "", "Zwischentitel", "", "">>,
      <<"x", "+", "Keine Nummer", "1,00", "1,00">>,
      <<"", "+", "Kind mit Vorzeichen", "1,00", "">>,
      <<"0", "+", "Null", "1,00", "1,00">>,
      <<"P1: Bau", "P1: Bau", "P1: Bau", "P1: Bau", "P1: Bau">>,
      <<"1", "30", "+", "Steuern", "1,00">>,
      <<"", "301", "", "Grundsteuer", "1,00">>,
      <<"", "", "", "davon", "2,00">> }

\* The second header row, which no parser reads.
SecondHeader5 == <<"", "", "", "1", "2">>

\* Header rows of three cells: there is no cell 3.
Headers3 ==
    { <<"Nr.", "", "Ergebnishaushalt">>,
      <<"Nr.", "", "Finanzhaushalt">>,
      <<"Nr.", "", "Sonstiges">> }

Rows3 ==
    { <<"1", "+", "Steuern">>,
      <<"", "", "davon">> }

SecondHeader3 == <<"", "", "">>

\* A header row of two cells: there is no cell 2.
Headers2 == { <<"Nr.", "Finanzhaushalt">> }
SecondHeader2 == <<"", "">>

GridsOf(headers, second, rows) ==
    {<<h, second>> \o body : h \in headers, body \in SeqsUpTo(rows, MaxRows)}

\* An investment overview of two projects, the second of which begins with
\* a row without a number.
TwoProjectsGrid ==
    << <<"Nr.", "", "Investitionsübersicht", "Ansatz 2015 EUR", "Plan 2016 EUR">>,
       SecondHeader5,
       <<"P1: Bau", "P1: Bau", "P1: Bau", "P1: Bau", "P1: Bau">>,
       <<"1", "+", "Einzahlungen", "1.234,56", "12,5">>,
       <<"P2: Bruecke", "P2: Bruecke", "P2: Bruecke", "P2: Bruecke", "P2: Bruecke">>,
       <<"", "", "davon Bau", "7", "">> >>

\* Cash-flow tables in which a row without a number follows a row that the
\* parser drops: a row without values, and a row with a number and no sign.
DroppedRowGrid ==
    << <<"Nr.", "", "Teilfinanzhaushalt", "Ansatz 2015 EUR", "Ergebnis 2014 EUR">>,
       SecondHeader5,
       <<"1", "+", "Steuern", "1.234,56", "12,5">>,
       <<"", "", "Zwischentitel", "", "">>,
       <<"", "", "davon  Grundsteuer", "7", "">> >>

UnsignedRowGrid ==
    << <<"Nr.", "", "Teilfinanzhaushalt", "Ansatz 2015 EUR", "Ergebnis 2014 EUR">>,
       SecondHeader5,
       <<"1", "+", "Steuern", "1.234,56", "12,5">>,
       <<"3", "", "Ohne Vorzeichen", "1,00", "">>,
       <<"", "", "davon  Grundsteuer", "7", "">> >>

Grids ==
    GridsOf(Headers5, SecondHeader5, Rows5)
    \cup GridsOf(Headers3, SecondHeader3, Rows3)
    \cup GridsOf(Headers2, SecondHeader2, {})
    \cup {TwoProjectsGrid, DroppedRowGrid, UnsignedRowGrid}

(***************************************************************************)
(* table_from_data on its own                                              *)
(***************************************************************************)
InitParse ==
    /\ headings = NewHeadingState
    /\ tables = <<>>
    /\ pc = "run"
    /\ exc = ""
    /\ data \in Grids
    /\ result = None
    /\ written = <<>>
    /\ args = None
    /\ lastOp = "init"
    /\ lastText = ""
    /\ pre = [headings |-> NewHeadingState, tables |-> <<>>]
    /\ scenario = [spec |-> 0, glued |-> 0]

\* table = table_from_data(data)
TableFromData ==
    /\ pc = "run"
    /\ lastOp = "init"
    /\ \E r \in {table_from_data(data)} :
           /\ result' = IF r.exc = "" THEN Some(r.value) ELSE None
           /\ exc' = r.exc
           /\ pc' = IF r.exc = "" THEN "run" ELSE "failed"
    /\ lastOp' = "table_from_data"
    /\ UNCHANGED <<headings, tables, data, written, args, lastText, pre, scenario>>

NextParse == TableFromData

SpecParse == InitParse /\ [][NextParse]_vars

(***************************************************************************)
(* table_from_data, then Table.dump_csv on the table                       *)
(***************************************************************************)
DumpHeaders5 ==
    { <<"Nr.", "", "Teilfinanzhaushalt", "Ansatz 2015 EUR", "Ergebnis 2014 EUR">>,
      <<"Nr.", "", "Investitionsübersicht", "Ansatz 2015 EUR", "Plan 2016 EUR">>,
      <<"Nr.", "", "Gesamtergebnishaushalt", "Ansatz 2015 EUR", "Ergebnis 2014 EUR">>,
      <<"Nr.", "Kto.\nGr.", "", "Teilergebnishaushalt", "Ansatz  2015 EUR">> }

DumpRows5 ==
    { <<"1", "+", "Steuern", "1.234,56", "12,5">>,
      <<"", "", "davon  Grundsteuer", "7", "">>,
      <<"", "", "", "3", "">>,
      <<"2", "=", "Summe", "1,00", "2,00">>,
      <<"P1: Bau", "P1: Bau", "P1: Bau", "P1: Bau", "P1: Bau">>,
      <<"1", "30", "+", "Steuern", "1,00">>,
      <<"", "301", "", "Grundsteuer", "1,00">>,
      <<"", "", "", "davon", "2,00">> }

\* A cash-flow table and an investment overview whose position has two
\* children, and an investment overview with a summary position.
TwoChildrenGrid ==
    << <<"Nr.", "", "Teilfinanzhaushalt", "Ansatz 2015 EUR", "Ergebnis 2014 EUR">>,
       SecondHeader5,
       <<"1", "+", "Steuern", "1.234,56", "12,5">>,
       <<"", "", "davon  Grundsteuer", "7", "">>,
       <<"", "", "", "3", "">> >>

InvestitionChildrenGrid ==
    << <<"Nr.", "", "Investitionsübersicht", "Ansatz 2015 EUR", "Plan 2016 EUR">>,
       SecondHeader5,
       <<"P1: Bau", "P1: Bau", "P1: Bau", "P1: Bau", "P1: Bau">>,
       <<"1", "-", "Auszahlungen", "7", "">>,
       <<"", "", "davon Bau", "5", "">>,
       <<"", "", "", "2", "">> >>

InvestitionSummaryGrid ==
    << <<"Nr.", "", "Investitionsübersicht", "Ansatz 2015 EUR", "Plan 2016 EUR">>,
       SecondHeader5,
       <<"P1: Bau", "P1: Bau", "P1: Bau", "P1: Bau", "P1: Bau">>,
       <<"2", "=", "Summe", "1,00", "2,00">>,
       <<"", "", "davon Bau", "1,00", "">> >>

DumpGrids ==
    GridsOf(DumpHeaders5, SecondHeader5, DumpRows5)
    \cup {TwoChildrenGrid, InvestitionChildrenGrid, InvestitionSummaryGrid}

\* The calls of dump_csv: meta_columns and the number of tags of the table
\* that additional_fields lists (-1: no additional_fields), as main passes
\* them to dump_tables_to_csv, and the call with the defaults.
DumpCalls ==
    { [meta_columns |-> None, tags |-> -1],
      [meta_columns |-> Some(<<"title">>), tags |-> -1],
      [meta_columns |-> Some(<<"kontogruppe", "title">>), tags |-> 3],
      [meta_columns |-> Some(<<"title">>), tags |-> 1],
      [meta_columns |-> Some(<<"project_id", "project_title", "title">>), tags |-> 1] }

\* additional_fields(table), None without the callback.
AdditionalFields(table, tags) ==
    IF tags = -1 THEN None
    ELSE IF tags = 1 THEN Some(<<table.teilhaushalt>>)
    ELSE Some(<<table.teilhaushalt, table.produktbereich, table.produktgruppe>>)

InitDump ==
    /\ headings = NewHeadingState
    /\ tables = <<>>
    /\ pc = "run"
    /\ exc = ""
    /\ data \in DumpGrids
    /\ result = None
    /\ written = <<>>
    /\ args = None
    /\ lastOp = "init"
    /\ lastText = ""
    /\ pre = [headings |-> NewHeadingState, tables |-> <<>>]
    /\ scenario = [spec |-> 0, glued |-> 0]

\* table.dump_csv(writer, meta_columns=..., additional_columns=...,
\* include_summaries=...) on the table just constructed.
DumpCsv(call, include_summaries) ==
    /\ pc = "run"
    /\ lastOp = "table_from_data"
    /\ result # None
    /\ \E ac \in {AdditionalFields(result[1], call.tags)} :
           /\ written' = dump_csv(result[1], ac, call.meta_columns,
                                  include_summaries)
           /\ args' = Some([additional_columns |-> ac,
                            meta_columns |-> call.meta_columns,
                            include_summaries |-> include_summaries])
    /\ lastOp' = "dump_csv"
    /\ UNCHANGED <<headings, tables, pc, exc, data, result, lastText, pre,
                   scenario>>

NextDump ==
    \/ TableFromData
    \/ \E call \in DumpCalls, include_summaries \in BOOLEAN :
           DumpCsv(call, include_summaries)

SpecDump == InitDump /\ [][NextDump]_vars

(***************************************************************************)
(* load_word_file                                                          *)
(***************************************************************************)
\* The most tables the list holds, and the most projects of one table.
MaxTables == 2
MaxProjects == 2

\* The tagging with '' for a level that is not current.
TagTableEmptyDefault(table, hs) ==
    [table EXCEPT
        !.teilhaushalt =
            IF hs.teilhaushalt # None
            THEN Some(CurrentTeilhaushalt(hs).id) ELSE Some(""),
        !.produktbereich =
            IF hs.produktbereich # None
            THEN Some(CurrentProduktbereich(hs).id) ELSE Some(""),
        !.produktgruppe =
            IF hs.produktgruppe # None
            THEN Some(CurrentProduktgruppe(hs).id) ELSE Some("")]

\* The else branch of load_word_file: the table with the identifiers of the
\* levels that are current (a level's dict is never empty, so it is true
\* whenever it is not None).
TagTable(table, hs) ==
    [table EXCEPT
        !.teilhaushalt =
            IF hs.teilhaushalt # None
            THEN Some(CurrentTeilhaushalt(hs).id) ELSE @,
        !.produktbereich =
            IF hs.produktbereich # None
            THEN Some(CurrentProduktbereich(hs).id) ELSE @,
        !.produktgruppe =
            IF hs.produktgruppe # None
            THEN Some(CurrentProduktgruppe(hs).id) ELSE @]

\* The handling of ValueError alone.
IsCaught(e) == e = "ValueError"

\* The grids of the documents: an investment overview with one project, a
\* header-less grid that continues it, a cash-flow table, and a cash-flow
\* table whose number cell holds a text that is no number.
InvestitionGrid ==
    << <<"Nr.", "", "Investitionsübersicht", "Ansatz 2015 EUR", "Plan 2016 EUR">>,
       SecondHeader5,
       <<"P1: Bau", "P1: Bau", "P1: Bau", "P1: Bau", "P1: Bau">>,
       <<"1", "+", "Einzahlungen", "1.234,56", "12,5">> >>

ContinuationGrid ==
    << <<"P2: Bruecke", "P2: Bruecke", "P2: Bruecke", "P2: Bruecke", "P2: Bruecke">>,
       <<"1", "-", "Auszahlungen", "7", "">>,
       <<"", "", "davon Bau", "7", "">> >>

FinanzGrid ==
    << <<"Nr.", "", "Teilfinanzhaushalt", "Ansatz 2015 EUR", "Ergebnis 2014 EUR">>,
       SecondHeader5,
       <<"1", "+", "Steuern", "1.234,56", "12,5">>,
       <<"", "", "davon Grundsteuer", "7", "">> >>

BadNumberGrid ==
    << <<"Nr.", "", "Teilfinanzhaushalt", "Ansatz 2015 EUR", "Ergebnis 2014 EUR">>,
       SecondHeader5,
       <<"x", "+", "Keine Nummer", "1,00", "1,00">> >>

DocumentGrids == {InvestitionGrid, ContinuationGrid, FinanzGrid, BadNumberGrid}

\* table_from_data is a function of the grid alone: its outcome for each grid
\* of the documents.
TableFromGrid == [grid \in DocumentGrids |-> table_from_data(grid)]

\* The last investment overview of tbls, 0 if there is none.
LastInvestition(tbls) ==
    IF \E i \in 1..Len(tbls) : tbls[i].cls = "InvestitionsuebersichtTable"
    THEN CHOOSE i \in 1..Len(tbls) :
             /\ tbls[i].cls = "InvestitionsuebersichtTable"
             /\ \A j \in (i + 1)..Len(tbls) :
                    tbls[j].cls # "InvestitionsuebersichtTable"
    ELSE 0

\* The body of the loop with a continuation handed to the last investment
\* overview of the list instead of its last table.
LoadTableBlockLastInvestition(hs, tbls, grid) ==
    Let(TableFromGrid[grid], LAMBDA r :
        IF r.exc = ""
        THEN [tables |-> Append(tbls, TagTable(r.value, hs)), exc |-> "",
              op |-> "tables.append"]
        ELSE IF ~IsCaught(r.exc)
        THEN [tables |-> tbls, exc |-> r.exc, op |-> "table_from_data"]
        ELSE IF LastInvestition(tbls) = 0
        THEN [tables |-> tbls, exc |-> "IndexError", op |-> "tables[-1]"]
        ELSE Let(append_data(tbls[LastInvestition(tbls)], grid), LAMBDA a :
                 [tables |-> [tbls EXCEPT ![LastInvestition(tbls)] = a.value],
                  exc |-> a.exc, op |-> "append_data"]))

\* The body of the loop with a grid that continues no table passed over.
LoadTableBlockIgnoreOrphan(hs, tbls, grid) ==
    Let(TableFromGrid[grid], LAMBDA r :
        IF r.exc = ""
        THEN [tables |-> Append(tbls, TagTable(r.value, hs)), exc |-> "",
              op |-> "tables.append"]
        ELSE IF ~IsCaught(r.exc)
        THEN [tables |-> tbls, exc |-> r.exc, op |-> "table_from_data"]
        ELSE IF tbls = <<>>
        THEN [tables |-> tbls, exc |-> "", op |-> "tables[-1]"]
        ELSE Let(append_data(tbls[Len(tbls)], grid), LAMBDA a :
                 [tables |-> [tbls EXCEPT ![Len(tbls)] = a.value],
                  exc |-> a.exc, op |-> "append_data"]))

\* The body of the loop of load_word_file for a table block: the tables it
\* leaves, the exception that leaves load_word_file ("" if none) and the
\* statement that ended the turn.
LoadTableBlock(hs, tbls, grid) ==
    Let(TableFromGrid[grid], LAMBDA r :
        IF r.exc = ""
        THEN [tables |-> Append(tbls, TagTable(r.value, hs)), exc |-> "",
              op |-> "tables.append"]
        ELSE IF ~IsCaught(r.exc)
        THEN [tables |-> tbls, exc |-> r.exc, op |-> "table_from_data"]
        ELSE IF tbls = <<>>
        THEN [tables |-> tbls, exc |-> "IndexError", op |-> "tables[-1]"]
        ELSE Let(append_data(tbls[Len(tbls)], grid), LAMBDA a :
                 [tables |-> [tbls EXCEPT ![Len(tbls)] = a.value],
                  exc |-> a.exc, op |-> "append_data"]))

DocumentHeadings == {"THH01 Bildung", "02 Schulen", "0201 Grundschulen"}

InitLoad == InitCommon

\* One turn of the loop of load_word_file for a table block.
LoadTable(grid) ==
    /\ pc = "run"
    /\ \E r \in {LoadTableBlock(headings, tables, grid)} :
           /\ Len(r.tables) <= MaxTables
           /\ \A i \in 1..Len(r.tables) : Len(r.tables[i].items) <= MaxProjects
           /\ tables' = r.tables
           /\ exc' = r.exc
           /\ pc' = IF r.exc = "" THEN "run" ELSE "failed"
           /\ lastOp' = r.op
    /\ data' = grid
    /\ lastText' = ""
    /\ pre' = [headings |-> headings, tables |-> tables]
    /\ scenario' = [spec |-> -1, glued |-> -1]
    /\ UNCHANGED <<headings, result, written, args>>

\* load_word_file: headings.reset() as a document begins, then one turn of
\* the loop per block, a table or a heading.
NextLoad ==
    \/ Reset
    \/ \E text \in DocumentHeadings : RegisterHeading(text)
    \/ \E grid \in DocumentGrids : LoadTable(grid)

SpecLoad == InitLoad /\ [][NextLoad]_vars

(***************************************************************************)
(* Claims about the heading state machine                                  *)
(***************************************************************************)
\* Whether the scope of hs is the Teilhaushalt tid/ttitle, the Produktbereich
\* pid/ptitle and the Produktgruppe gid/gtitle.
ScopeIs(hs, tid, ttitle, pid, ptitle, gid, gtitle) ==
    /\ hs.teilhaushalt # None
    /\ hs.produktbereich # None
    /\ hs.produktgruppe # None
    /\ CurrentTeilhaushalt(hs).id = tid
    /\ CurrentTeilhaushalt(hs).title = ttitle
    /\ CurrentProduktbereich(hs).id = pid
    /\ CurrentProduktbereich(hs).title = ptitle
    /\ CurrentProduktgruppe(hs).id = gid
    /\ CurrentProduktgruppe(hs).title = gtitle

\* C1 as the spec states it: after "THH 01 Bildung", "02 Schulen",
\* "0201 Grundschulen" on a fresh heading state the scope is Teilhaushalt
\* 01/Bildung, Produktbereich 02/Schulen, Produktgruppe 0201/Grundschulen.
C1_ScenarioScopeAsStated ==
    scenario.spec = 3 =>
        ScopeIs(headings, "01", "Bildung", "02", "Schulen",
                "0201", "Grundschulen")

\* C1 (amended): the heading is split at its first run of whitespace, so the
\* identifier of "THH 01 Bildung" is "THH": the sequence leaves Teilhaushalt
\* "" (empty id) with title "01 Bildung", Produktbereich 02/Schulen and
\* Produktgruppe 0201/Grundschulen. The scope Teilhaushalt 01/Bildung is what
\* the sequence leaves when its first heading is "THH01 Bildung".
C1_ScenarioScope ==
    /\ scenario.spec = 3 =>
           ScopeIs(headings, "", "01 Bildung", "02", "Schulen",
                   "0201", "Grundschulen")
    /\ scenario.glued = 3 =>
           ScopeIs(headings, "01", "Bildung", "02", "Schulen",
                   "0201", "Grundschulen")

C1_Witness ==
    /\ scenario.spec = 3
    /\ lastOp = "register_heading"
    /\ lastText = "0201 Grundschulen"

\* The heading text as register_heading takes it apart.
HeadingParts(text) == split(Strip(text), 1)
IsTwoPartHeading(text) == Strip(text) # "" /\ Len(HeadingParts(text)) = 2
IsTHHHeading(text) ==
    IsTwoPartHeading(text) /\ startswith(HeadingParts(text)[1], "THH")
THHKey(text) == TeilhaushaltId(HeadingParts(text)[1])

\* C2: registering a THH heading whose identifier is already a key of the
\* registry adds no entry, keeps the entry's title and its Produktbereiche,
\* and makes that entry the current Teilhaushalt.
C2_KnownTeilhaushaltIdempotent ==
    (/\ lastOp = "register_heading"
     /\ IsTHHHeading(lastText)
     /\ THHKey(lastText) \in DOMAIN pre.headings.teilhaushalte)
    => LET key == THHKey(lastText)
           old == pre.headings.teilhaushalte
           new == headings.teilhaushalte
       IN  /\ DOMAIN new = DOMAIN old
           /\ new[key].title = old[key].title
           /\ new[key].produktbereiche = old[key].produktbereiche
           /\ new[key].id = key
           /\ headings.teilhaushalt = <<key>>

\* A known Teilhaushalt that holds a Produktbereich is entered again under
\* another title.
C2_Witness ==
    /\ lastOp = "register_heading"
    /\ IsTHHHeading(lastText)
    /\ THHKey(lastText) \in DOMAIN pre.headings.teilhaushalte
    /\ HeadingParts(lastText)[2] # pre.headings.teilhaushalte[THHKey(lastText)].title
    /\ DOMAIN pre.headings.teilhaushalte[THHKey(lastText)].produktbereiche # {}

\* Whether text, registered in heading state hs, matches none of the three
\* transition rules.
MatchesNoRule(hs, text) ==
    \/ Strip(text) = ""
    \/ Len(HeadingParts(text)) # 2
    \/ LET id == HeadingParts(text)[1]
       IN  /\ ~startswith(id, "THH")
           /\ ~(/\ Len(id) = 2 /\ isdigit(id)
                /\ hs.teilhaushalt # None /\ hs.produktbereich = None)
           /\ ~(/\ Len(id) = 4 /\ isdigit(id)
                /\ hs.produktbereich # None /\ hs.produktgruppe = None)

\* C3: a heading that matches none of the three transition rules leaves the
\* heading state (the three current levels and the registry) unchanged.
C3_IgnoredHeadingChangesNothing ==
    (lastOp = "register_heading" /\ MatchesNoRule(pre.headings, lastText))
    => headings = pre.headings

\* "99 Sonstiges" right after a reset, with a registry that is not empty.
C3_Witness ==
    /\ lastOp = "register_heading"
    /\ lastText = "99 Sonstiges"
    /\ pre.headings.teilhaushalt = None
    /\ DOMAIN pre.headings.teilhaushalte # {}

\* A two-digit heading while a Produktbereich is current, and a four-digit
\* heading while a Produktgruppe is current.
C3_WitnessDeeper ==
    /\ lastOp = "register_heading"
    /\ lastText = "0201 Grundschulen"
    /\ pre.headings.produktgruppe # None

(***************************************************************************)
(* Claims about the dispatcher and the table parsers                       *)
(***************************************************************************)
KeywordIn(header, i, keyword) ==
    HasCell(header, i) /\ Contains(lower(Cell(header, i)), keyword)

\* The layout the priority order of the keywords gives a header row, "" if
\* no keyword stands in a candidate cell.
ExpectedLayout(header) ==
    IF KeywordIn(header, 2, FINANZHAUSHALT) THEN "FinanzhaushaltTable"
    ELSE IF KeywordIn(header, 2, INVESTITIONSUEBERSICHT)
    THEN "InvestitionsuebersichtTable"
    ELSE IF KeywordIn(header, 2, ERGEBNISHAUSHALT)
            \/ KeywordIn(header, 3, ERGEBNISHAUSHALT)
    THEN "ErgebnishaushaltTable"
    ELSE ""

\* C5: the layout follows the priority order of the keywords, read
\* case-insensitively in the candidate cells of the header row, and a header
\* without a keyword fails with ValueError.
C5_LayoutByHeaderAsStated ==
    lastOp = "table_from_data" =>
        LET e == ExpectedLayout(data[1])
        IN  /\ e = "" => exc = "ValueError"
            /\ (e # "" /\ exc = "") => result[1].cls = e

\* The elements of a sequence.
Range(q) == {q[i] : i \in 1..Len(q)}

\* The Position records of a parsed table.
PositionsOf(table) ==
    IF table.cls = "InvestitionsuebersichtTable"
    THEN UNION {Range(project.positions) : project \in Range(table.items)}
    ELSE Range(table.items)

ChildrenOf(table) == UNION {Range(p.children) : p \in PositionsOf(table)}

\* C8 as the spec states it: in every table parsed without failure each
\* Position has a non-empty sign and each child an empty sign and no
\* kontogruppe.
C8_SignsAndKontogruppeAsStated ==
    (lastOp = "table_from_data" /\ exc = "") =>
        /\ \A p \in PositionsOf(result[1]) : TruthyText(Get(p, "sign"))
        /\ \A c \in ChildrenOf(result[1]) :
              /\ ~TruthyText(Get(c, "sign"))
              /\ ~TruthyText(Get(c, "kontogruppe"))

\* The header descriptor of the grid, under the class the dispatcher picks.
HeaderOf(grid) == _parse_headers(Classify(grid).value, grid[1])

\* Whether the grid is classified and its header yields no value column.
NoValueColumns(grid) ==
    /\ Classify(grid).exc = ""
    /\ HeaderOf(grid).exc = ""
    /\ HeaderOf(grid).value.value_columns = <<>>

SignColumn(grid) ==
    LET meta == HeaderOf(grid).value.meta_columns
    IN  meta[CHOOSE k \in 1..Len(meta) : meta[k].key = "sign"].col

\* The data rows of the grid (not marker rows) with a number and a sign.
RowsWithNumberAndSign(grid) ==
    {k \in 3..Len(grid) :
        /\ ~(Classify(grid).value = "InvestitionsuebersichtTable"
             /\ IsMarkerRow(grid[k]))
        /\ Cell(grid[k], 0) # ""
        /\ Cell(grid[k], SignColumn(grid)) # ""}

\* The number of Positions of a parsed table.
RECURSIVE SumLen(_)
SumLen(qs) == IF qs = <<>> THEN 0 ELSE Len(Head(qs)) + SumLen(Tail(qs))

NumPositions(table) ==
    IF table.cls = "InvestitionsuebersichtTable"
    THEN SumLen([i \in 1..Len(table.items) |-> table.items[i].positions])
    ELSE Len(table.items)

\* C9 as the spec states it: with no value column, each data row with a
\* number and a sign still becomes a Position, with an empty values list.
C9_NoValueColumnsAsStated ==
    (lastOp = "table_from_data" /\ exc = "" /\ NoValueColumns(data)) =>
        /\ NumPositions(result[1]) = Cardinality(RowsWithNumberAndSign(data))
        /\ \A p \in PositionsOf(result[1]) : p.values = <<>>

\* C9 (amended): with no value column, the investment layout makes each data
\* row with a number and a sign a Position, and each child, with an empty
\* values list; the income/expense and cash-flow layouts never fail and drop
\* every data row as a row without values, so the table has no Position.
C9_NoValueColumns ==
    (lastOp = "table_from_data" /\ NoValueColumns(data)) =>
        IF Classify(data).value = "InvestitionsuebersichtTable"
        THEN exc = "" =>
                /\ NumPositions(result[1]) = Cardinality(RowsWithNumberAndSign(data))
                /\ \A p \in PositionsOf(result[1]) : p.values = <<>>
                /\ \A c \in ChildrenOf(result[1]) : c.values = <<>>
        ELSE /\ exc = ""
             /\ result[1].items = <<>>

\* A cash-flow grid without value columns whose row has a number and a sign.
C9_Witness ==
    /\ lastOp = "table_from_data"
    /\ NoValueColumns(data)
    /\ Classify(data).value = "FinanzhaushaltTable"
    /\ RowsWithNumberAndSign(data) # {}
    /\ exc = ""

\* An investment grid without value columns whose row became a Position.
C9_WitnessInvestition ==
    /\ lastOp = "table_from_data"
    /\ NoValueColumns(data)
    /\ Classify(data).value = "InvestitionsuebersichtTable"
    /\ exc = ""
    /\ NumPositions(result[1]) > 0

(***************************************************************************)
(* Claims about load_word_file                                             *)
(***************************************************************************)
\* The statements that end a turn of the loop for a table block.
LoadOps == {"tables.append", "table_from_data", "tables[-1]", "append_data"}

LastTable(tbls) == tbls[Len(tbls)]

\* The three tags of a table.
TagsOf(table) ==
    <<table.teilhaushalt, table.produktbereich, table.produktgruppe>>

\* The identifiers of the levels that are current in hs, None for a level
\* that is not current.
CurrentIds(hs) ==
    << IF hs.teilhaushalt = None THEN None
       ELSE Some(CurrentTeilhaushalt(hs).id),
       IF hs.produktbereich = None THEN None
       ELSE Some(CurrentProduktbereich(hs).id),
       IF hs.produktgruppe = None THEN None
       ELSE Some(CurrentProduktgruppe(hs).id) >>

\* C4: a grid that table_from_data classifies and parses is stored as a new
\* table whose three tags are the identifiers of the levels current in the
\* heading state at that moment, None for a level that is not current; no
\* step (heading, reset, table or continuation) changes the tags of a table
\* that is already stored.
C4_TablesTagged ==
    /\ Len(tables) >= Len(pre.tables)
    /\ \A i \in 1..Len(pre.tables) : TagsOf(tables[i]) = TagsOf(pre.tables[i])
    /\ (lastOp \in LoadOps /\ TableFromGrid[data].exc = "") =>
           lastOp = "tables.append"
    /\ lastOp = "tables.append" =>
           /\ Len(tables) = Len(pre.tables) + 1
           /\ TagsOf(LastTable(tables)) = CurrentIds(pre.headings)
    /\ lastOp # "tables.append" => Len(tables) = Len(pre.tables)

\* A second table is stored while a Teilhaushalt and a Produktbereich are
\* current and no Produktgruppe is; the first was stored with no level current.
C4_Witness ==
    /\ lastOp = "tables.append"
    /\ Len(tables) = 2
    /\ TagsOf(tables[1]) = <<None, None, None>>
    /\ TagsOf(tables[2]) = <<Some("01"), Some("02"), None>>

\* A table stored with all three levels current, two steps or more ago.
C4_WitnessStored ==
    /\ lastOp \in {"reset", "register_heading"}
    /\ Len(tables) >= 1
    /\ TagsOf(tables[1]) = <<Some("01"), Some("02"), Some("0201")>>
    /\ CurrentIds(headings) # TagsOf(tables[1])

\* A row with a number and a sign / a row with neither.
IsPositionRow(row) == isdigit(row[1]) /\ DigitsValue(row[1]) # 0 /\ row[2] # ""
IsChildRow(row) == row[1] = "" /\ row[2] = ""

\* Whether the value cells of the row, for the value columns of the table,
\* are there and hold amounts.
AmountsOk(table, row) ==
    \A k \in 1..Len(table.value_columns) :
        /\ HasCell(row, table.value_columns[k].col)
        /\ parse_amount(Cell(row, table.value_columns[k].col)).exc = ""

\* A header-less grid for the table: a marker row "<id>: <title>" in which
\* the dispatcher finds no layout, then data rows as wide as the marker row,
\* the first of them a Position.
IsContinuation(table, grid) ==
    /\ Len(grid) >= 2
    /\ IsMarkerRow(grid[1])
    /\ Contains(grid[1][1], ":")
    /\ Classify(grid) = Raise("ValueError", "")
    /\ IsPositionRow(grid[2])
    /\ \A k \in 2..Len(grid) :
          /\ Len(grid[k]) = Len(grid[1])
          /\ ~IsMarkerRow(grid[k])
          /\ IsPositionRow(grid[k]) \/ IsChildRow(grid[k])
          /\ AmountsOk(table, grid[k])

\* The number of Positions and children of a project.
NumRecords(project) ==
    Len(project.positions)
    + SumLen([i \in 1..Len(project.positions) |-> project.positions[i].children])

\* C6: a header-less grid met while the last table is an investment
\* overview is handed to append_data of that table and parsed without
\* failure: the number of tables stays, every other table and the projects
\* the table had stay as they were, and the table gains one project, named by
\* the marker row, that holds one Position or child per data row of the grid.
C6_ContinuationAppended ==
    (/\ lastOp \in LoadOps
     /\ pre.tables # <<>>
     /\ LastTable(pre.tables).cls = "InvestitionsuebersichtTable"
     /\ IsContinuation(LastTable(pre.tables), data))
    => /\ lastOp = "append_data"
       /\ exc = ""
       /\ Len(tables) = Len(pre.tables)
       /\ \A i \in 1..(Len(tables) - 1) : tables[i] = pre.tables[i]
       /\ LET old == LastTable(pre.tables)
              new == LastTable(tables)
              marker == SplitOnce(data[1][1], ":")
          IN  /\ [new EXCEPT !.items = old.items] = old
              /\ Len(new.items) = Len(old.items) + 1
              /\ SubSeq(new.items, 1, Len(old.items)) = old.items
              /\ new.items[Len(new.items)].id = Strip(marker[1])
              /\ new.items[Len(new.items)].title = Strip(marker[2])
              /\ NumRecords(new.items[Len(new.items)]) = Len(data) - 1

\* The continuation grid was appended to the second of two tables, an
\* investment overview with one project.
C6_Witness ==
    /\ lastOp = "append_data"
    /\ exc = ""
    /\ Len(pre.tables) = 2
    /\ IsContinuation(LastTable(pre.tables), data)
    /\ Len(LastTable(pre.tables).items) = 1
    /\ Len(LastTable(tables).items) = 2
    /\ NumRecords(LastTable(tables).items[2]) = 2

\* Whether a data row of the grid holds, in its number cell, a non-empty
\* text that is no integer.
HasBadNumber(grid) ==
    \E k \in 3..Len(grid) :
        /\ ~IsMarkerRow(grid[k])
        /\ grid[k][1] # ""
        /\ int(grid[k][1]).exc = "ValueError"

\* C7 as the spec states it: when table_from_data fails on the number cell
\* of a data row of a grid whose layout the dispatcher recognises, the
\* ValueError leaves load_word_file from table_from_data, and the grid is not
\* handed to the append_data of the last table.
C7_NumberFailurePropagatesAsStated ==
    (/\ lastOp \in LoadOps
     /\ Classify(data).exc = ""
     /\ HasBadNumber(data)
     /\ TableFromGrid[data].exc = "ValueError")
    => /\ lastOp = "table_from_data"
       /\ exc = "ValueError"
       /\ pc = "failed"
       /\ tables = pre.tables

(***************************************************************************)
(* Claims about Table.dump_csv                                             *)
(***************************************************************************)
\* The rows written in turn k of the loop of dump_csv.
TurnRows(k) == SelectSeq(written, LAMBDA e : e.turn = k)

\* The value entry a row was written for: its last three fields.
ValueOfRow(row) ==
    [year   |-> row[Len(row) - 2][1],
     type   |-> row[Len(row) - 1][1],
     amount |-> row[Len(row)][1]]

\* The value entries of the children of a record, child after child.
ChildValues(record) ==
    Concat([c \in 1..Len(record.children) |-> record.children[c].values])

\* The records of the dumped table that have children and no summary sign.
ParentTurns ==
    {k \in 1..Len(_csv_records(result[1])) :
        /\ _csv_records(result[1])[k].children # <<>>
        /\ _csv_records(result[1])[k].sign # Some(SUMMARY_SIGN)}

\* C10: with include_summaries false, the rows written for a Position with
\* children whose sign is not "=" are one row per value entry of each child,
\* child after child, and none for the value entries of the Position itself.
C10_ChildrenOnly ==
    (lastOp = "dump_csv" /\ ~args[1].include_summaries) =>
        \A k \in ParentTurns :
            LET expected == ChildValues(_csv_records(result[1])[k])
                rows == TurnRows(k)
            IN  /\ Len(rows) = Len(expected)
                /\ \A i \in 1..Len(rows) : ValueOfRow(rows[i].row) = expected[i]

\* A Position with two value entries and two children was dumped into four
\* rows.
C10_Witness ==
    /\ lastOp = "dump_csv"
    /\ ~args[1].include_summaries
    /\ \E k \in ParentTurns :
          /\ Len(_csv_records(result[1])[k].children) = 2
          /\ Len(_csv_records(result[1])[k].values) = 2
          /\ Len(TurnRows(k)) = 4

\* The same for a position of a project of an investment overview.
C10_WitnessInvestition ==
    /\ lastOp = "dump_csv"
    /\ result[1].cls = "InvestitionsuebersichtTable"
    /\ ~args[1].include_summaries
    /\ \E k \in ParentTurns : Len(TurnRows(k)) = 4

\* The records dump_csv walked, and the lists it worked with.
DumpedRecords == _csv_records(result[1])
DumpedAdditional ==
    IF args[1].additional_columns = None THEN <<>>
    ELSE args[1].additional_columns[1]
DumpedMeta ==
    IF args[1].meta_columns = None THEN DefaultMetaColumns(result[1])
    ELSE args[1].meta_columns[1]

\* The value entries a sequence of written rows was written for.
RowValues(rows) == [i \in 1..Len(rows) |-> ValueOfRow(rows[i].row)]

\* The meta fields of a written row, in the order of meta_columns.
MetaFieldsOfRow(row) ==
    SubSeq(row, Len(DumpedAdditional) + 1, Len(row) - 3)

\* C11: with include_summaries false no row is written for a record whose
\* sign is "=", nor for its children; with include_summaries true every
\* record, whatever its sign, is written as one row per value entry of its
\* own followed by the rows of its children; and a record without children
\* whose sign is not "=" is always written as one row per value entry.
C11_SummariesSkipped ==
    lastOp = "dump_csv" =>
        \A k \in 1..Len(DumpedRecords) :
            LET r == DumpedRecords[k]
            IN  /\ (r.sign = Some("=") /\ ~args[1].include_summaries)
                       => TurnRows(k) = <<>>
                /\ args[1].include_summaries
                       => RowValues(TurnRows(k)) = r.values \o ChildValues(r)
                /\ (r.sign # Some("=") /\ r.children = <<>>)
                       => /\ RowValues(TurnRows(k)) = r.values
                          /\ Len(TurnRows(k)) > 0

\* A summary record with a child and value entries of its own was passed
\* over without a row.
C11_Witness ==
    /\ lastOp = "dump_csv"
    /\ ~args[1].include_summaries
    /\ \E k \in 1..Len(DumpedRecords) :
          /\ DumpedRecords[k].sign = Some("=")
          /\ DumpedRecords[k].children # <<>>
          /\ DumpedRecords[k].values # <<>>
          /\ TurnRows(k) = <<>>

\* A summary record with a child was written with its child on request.
C11_WitnessRequested ==
    /\ lastOp = "dump_csv"
    /\ args[1].include_summaries
    /\ \E k \in 1..Len(DumpedRecords) :
          /\ DumpedRecords[k].sign = Some("=")
          /\ DumpedRecords[k].children # <<>>
          /\ Len(TurnRows(k)) > Len(DumpedRecords[k].values)

\* The field of a child that the rows of the child are to show for key.
ExpectedChildField(child, parent, key) ==
    IF args[1].include_summaries THEN Get(child, key)
    ELSE IF ~TruthyField(key, Get(child, key)) THEN Get(parent, key)
    ELSE IF key = "title"
    THEN Some(parent.title[1] \o ": " \o child.title[1])
    ELSE Get(child, key)

\* The meta fields the rows of the children of a record are to show, row
\* after row.
ExpectedChildMeta(record) ==
    Concat([c \in 1..Len(record.children) |->
        [i \in 1..Len(record.children[c].values) |->
            [j \in 1..Len(DumpedMeta) |->
                ExpectedChildField(record.children[c], record,
                                   DumpedMeta[j])]]])

\* The rows of turn k that were written for the children of the record.
ChildRows(k) ==
    IF args[1].include_summaries
    THEN SubSeq(TurnRows(k), Len(DumpedRecords[k].values) + 1,
                Len(TurnRows(k)))
    ELSE TurnRows(k)

\* The records whose children dump_csv writes.
WrittenParentTurns ==
    {k \in 1..Len(DumpedRecords) :
        /\ DumpedRecords[k].children # <<>>
        /\ (DumpedRecords[k].sign = Some("=") => args[1].include_summaries)}

\* C12: in the rows of a child written with include_summaries false, every
\* meta field that is blank or absent on the child shows the value of the
\* parent (project_id and project_title included), a title that is not blank
\* shows "<parent title>: <child title>", and any other field the child's
\* own value; with include_summaries true every field is the child's own.
C12_ChildFieldsInherited ==
    lastOp = "dump_csv" =>
        \A k \in WrittenParentTurns :
            [i \in 1..Len(ChildRows(k)) |-> MetaFieldsOfRow(ChildRows(k)[i].row)]
                = ExpectedChildMeta(DumpedRecords[k])

\* The children of a position of a project were written with the project's
\* id and title, one under the parent's title and one under both titles.
C12_Witness ==
    /\ lastOp = "dump_csv"
    /\ ~args[1].include_summaries
    /\ DumpedMeta = <<"project_id", "project_title", "title">>
    /\ \E i, j \in 1..Len(written) :
          /\ MetaFieldsOfRow(written[i].row)
                 = <<Some("P1"), Some("Bau"), Some("Auszahlungen: davon Bau")>>
          /\ MetaFieldsOfRow(written[j].row)
                 = <<Some("P1"), Some("Bau"), Some("Auszahlungen")>>

\* With include_summaries true the child of a position was written with a
\* blank title of its own.
C12_WitnessSummaries ==
    /\ lastOp = "dump_csv"
    /\ args[1].include_summaries
    /\ \E k \in WrittenParentTurns : \E i \in 1..Len(ChildRows(k)) :
          MetaFieldsOfRow(ChildRows(k)[i].row) = <<Some("")>>

(***************************************************************************)
(* Claims about Table._parse_value_headers                                 *)
(***************************************************************************)
\* The first row of the grid.
HeaderRow == data[1]

\* A token that reads as an integer: an optional sign, then digits.
IsIntegerToken(tok) ==
    /\ Unsigned(tok) # ""
    /\ \A i \in 1..Len(Unsigned(tok)) : Char(Unsigned(tok), i) \in Digits

\* A header cell of three tokens: a type, an integer year and "EUR".
NamesValueColumn(cell) ==
    /\ Len(StrSplit(cell)) = 3
    /\ IsIntegerToken(StrSplit(cell)[2])
    /\ StrSplit(cell)[3] = "EUR"

\* The value-column map the claim describes for a header with numMeta meta
\* columns, in the order of the columns.
RECURSIVE ExpectedValueColumns(_, _)
ExpectedValueColumns(header, i) ==
    IF i >= Len(header) THEN <<>>
    ELSE (IF NamesValueColumn(Cell(header, i))
          THEN <<[col  |-> i,
                  type |-> StrSplit(Cell(header, i))[1],
                  year |-> SignOf(StrSplit(Cell(header, i))[2])
                           * DigitsValue(Unsigned(StrSplit(Cell(header, i))[2]))]>>
          ELSE <<>>)
         \o ExpectedValueColumns(header, i + 1)

\* C13: for every header row of a grid the dispatcher classifies, parsing
\* the header raises nothing and the value-column map holds exactly the
\* columns after the meta columns whose cell is three tokens (type, integer
\* year, "EUR"), each mapped to its type and year.
C13_ValueColumnsExact ==
    (lastOp = "table_from_data" /\ Classify(data).exc = "") =>
        /\ HeaderOf(data).exc = ""
        /\ HeaderOf(data).value.value_columns
               = ExpectedValueColumns(HeaderRow,
                     Len(HeaderOf(data).value.meta_columns))
        /\ result # None =>
               result[1].value_columns
                   = ExpectedValueColumns(HeaderRow,
                                          Len(result[1].meta_columns))

\* A table was built from a header with one value column and one cell past
\* the meta columns that names none.
C13_Witness ==
    /\ lastOp = "table_from_data"
    /\ result # None
    /\ Len(HeaderRow) = Len(result[1].meta_columns) + 2
    /\ Len(result[1].value_columns) = 1

\* A table was built from a header whose only cell ending in "EUR" has a
\* year that is no number.
C13_WitnessNoYear ==
    /\ lastOp = "table_from_data"
    /\ result # None
    /\ \E i \in 0..(Len(HeaderRow) - 1) :
          /\ Len(StrSplit(Cell(HeaderRow, i))) = 3
          /\ StrSplit(Cell(HeaderRow, i))[3] = "EUR"
          /\ ~IsIntegerToken(StrSplit(Cell(HeaderRow, i))[2])
    /\ result[1].value_columns = <<>>

(***************************************************************************)
(* Claims about ErgebnishaushaltTable                                      *)
(***************************************************************************)
\* 1 when cell 1 of the header row is the Kontogruppe label, else 0.
LabelOffset == IF Cell(HeaderRow, 1) = "Kto.\nGr." THEN 1 ELSE 0

\* The record holds the sign, the title and the kontogruppe of the row, read
\* off columns shifted by off.
ReadWithOffset(record, row, off) ==
    /\ Len(row) >= 3 + off
    /\ Get(record, "sign") = Some(Cell(row, 1 + off))
    /\ Get(record, "title") = Some(clean_string(Cell(row, 2 + off)))
    /\ "kontogruppe" \in DOMAIN record
    /\ record.kontogruppe = (IF off = 1 THEN Some(Cell(row, 1)) ELSE None)

\* C14: in an income/expense table, without the Kontogruppe label in cell 1
\* of the header every record has its sign from column 1 and its title from
\* column 2, the value columns are looked for from column 3 on, and the
\* kontogruppe field of every record is there and None; with the label the
\* kontogruppe is column 1, the sign column 2, the title column 3 and the
\* value columns are looked for from column 4 on.
C14_KontogruppeShift ==
    (lastOp = "table_from_data" /\ result # None
        /\ result[1].cls = "ErgebnishaushaltTable") =>
        /\ result[1].value_columns
               = ExpectedValueColumns(HeaderRow, 3 + LabelOffset)
        /\ \A r \in PositionsOf(result[1]) \cup ChildrenOf(result[1]) :
              \E row \in Range(RowsFrom(data, 2)) :
                  ReadWithOffset(r, row, LabelOffset)

\* An income/expense table without the Kontogruppe column was built with a
\* Position and a child.
C14_Witness ==
    /\ lastOp = "table_from_data"
    /\ result # None
    /\ result[1].cls = "ErgebnishaushaltTable"
    /\ LabelOffset = 0
    /\ result[1].value_columns # <<>>
    /\ ChildrenOf(result[1]) # {}

\* The same with the Kontogruppe column.
C14_WitnessLabel ==
    /\ lastOp = "table_from_data"
    /\ result # None
    /\ result[1].cls = "ErgebnishaushaltTable"
    /\ LabelOffset = 1
    /\ ChildrenOf(result[1]) # {}

(***************************************************************************)
(* Claims about the continuation branch of load_word_file                  *)
(***************************************************************************)
\* The dispatcher cannot classify the grid of the last step.
IsUnclassifiable(grid) == Classify(grid).exc = "ValueError"

\* C15: a grid the dispatcher cannot classify, met while the list of tables
\* is empty, ends loading with an exception and leaves the list empty.
C15_OrphanContinuationFails ==
    (lastOp \in LoadOps /\ IsUnclassifiable(data) /\ pre.tables = <<>>) =>
        /\ exc # ""
        /\ pc = "failed"
        /\ tables = <<>>

\* The header-less grid was the first table block of the run.
C15_Witness ==
    /\ lastOp = "tables[-1]"
    /\ data = ContinuationGrid
    /\ pre.tables = <<>>
    /\ exc = "IndexError"

(***************************************************************************)
(* Claims about InvestitionsuebersichtTable._parse_body                    *)
(***************************************************************************)
\* A data row without a number: neither a marker row nor a row whose first
\* cell reads as a number other than 0.
IsNumberlessRow(row) ==
    /\ ~IsMarkerRow(row)
    /\ row[1] = "" \/ (isdigit(row[1]) /\ DigitsValue(row[1]) = 0)

\* The projects of a parsed investment overview, and the body rows of its
\* grid that come under the p-th marker row.
MarkerRows(grid) ==
    SelectSeq([k \in 1..Len(grid) |-> k],
              LAMBDA k : k > 2 /\ IsMarkerRow(grid[k]))

RowsUnderMarker(grid, p) ==
    {k \in 1..Len(grid) :
        /\ k > MarkerRows(grid)[p]
        /\ p < Len(MarkerRows(grid)) => k < MarkerRows(grid)[p + 1]}

\* C16 as the spec states it: in an investment overview a row without a
\* number that follows a marker row directly makes parsing fail, and in a
\* table parsed without failure the children of the Positions of each
\* Project are as many as the rows without a number under its marker row.
C16_MarkerResetsPositionAsStated ==
    (/\ lastOp = "table_from_data"
     /\ Classify(data).exc = ""
     /\ Classify(data).value = "InvestitionsuebersichtTable") =>
        /\ (\E k \in 3..(Len(data) - 1) :
                IsMarkerRow(data[k]) /\ IsNumberlessRow(data[k + 1]))
               => exc # ""
        /\ result # None =>
               \A p \in 1..Len(result[1].items) :
                   SumLen([i \in 1..Len(result[1].items[p].positions) |->
                              result[1].items[p].positions[i].children])
                       = Cardinality({k \in RowsUnderMarker(data, p) :
                                         IsNumberlessRow(data[k])})

\* Whether q is p followed by more elements.
IsProperPrefix(p, q) == Len(q) > Len(p) /\ SubSeq(q, 1, Len(p)) = p

\* C17 as the spec states it: a grid the dispatcher cannot classify, met
\* after an investment overview, adds Projects to the last investment
\* overview of the list, whatever tables follow that one, and loading does
\* not fail over a later table of another layout.
C17_ContinuationToLastInvestitionAsStated ==
    (/\ lastOp \in LoadOps
     /\ IsUnclassifiable(data)
     /\ LastInvestition(pre.tables) # 0) =>
        /\ exc # "AttributeError"
        /\ Len(tables) = Len(pre.tables)
        /\ IsProperPrefix(pre.tables[LastInvestition(pre.tables)].items,
                          tables[LastInvestition(pre.tables)].items)

\* C17: a grid the dispatcher cannot classify, met while the list of tables
\* is not empty, is handed to append_data of the last table of the list and
\* of no other: when that table is an investment overview it keeps its
\* Projects and gains the Projects of the grid, when it is of another layout
\* loading fails with AttributeError and no table changes; in both cases
\* every earlier table stays as it was.
C17_ContinuationToLastTable ==
    (lastOp \in LoadOps /\ IsUnclassifiable(data) /\ pre.tables # <<>>) =>
        /\ lastOp = "append_data"
        /\ Len(tables) = Len(pre.tables)
        /\ \A i \in 1..(Len(tables) - 1) : tables[i] = pre.tables[i]
        /\ IF LastTable(pre.tables).cls = "InvestitionsuebersichtTable"
           THEN /\ [LastTable(tables) EXCEPT !.items = LastTable(pre.tables).items]
                       = LastTable(pre.tables)
                /\ IsProperPrefix(LastTable(pre.tables).items,
                                  LastTable(tables).items)
           ELSE /\ exc = "AttributeError"
                /\ pc = "failed"
                /\ tables = pre.tables

\* The header-less grid came after an investment overview and a cash-flow
\* table, and loading failed over the cash-flow table.
C17_Witness ==
    /\ lastOp = "append_data"
    /\ data = ContinuationGrid
    /\ Len(pre.tables) = 2
    /\ pre.tables[1].cls = "InvestitionsuebersichtTable"
    /\ pre.tables[2].cls = "FinanzhaushaltTable"
    /\ exc = "AttributeError"

\* The header-less grid came after a cash-flow table and an investment
\* overview, and the investment overview gained its Project.
C17_WitnessAppended ==
    /\ lastOp = "append_data"
    /\ data = ContinuationGrid
    /\ Len(pre.tables) = 2
    /\ pre.tables[1].cls = "FinanzhaushaltTable"
    /\ pre.tables[2].cls = "InvestitionsuebersichtTable"
    /\ exc = ""
    /\ Len(tables[2].items) = Len(pre.tables[2].items) + 1

(***************************************************************************)
(* Claims about the transitions of the heading state                       *)
(***************************************************************************)
\* The identifier of a heading of two parts is exactly n digits.
IsDigitsId(text, n) ==
    /\ IsTwoPartHeading(text)
    /\ Len(HeadingParts(text)[1]) = n
    /\ \A i \in 1..n : Char(HeadingParts(text)[1], i) \in Digits

\* The conditions under which the claim has a heading enter a Produktbereich
\* and a Produktgruppe in heading state hs.
EntersProduktbereich(hs, text) ==
    /\ hs.teilhaushalt # None
    /\ hs.produktbereich = None
    /\ IsDigitsId(text, 2)

EntersProduktgruppe(hs, text) ==
    /\ hs.produktbereich # None
    /\ hs.produktgruppe = None
    /\ IsDigitsId(text, 4)

\* C18: registering a heading that is no THH heading keeps the current
\* Teilhaushalt; it sets the current Produktbereich, to the entry of its
\* identifier under the current Teilhaushalt and with no Produktgruppe
\* current, exactly when a Teilhaushalt is current, no Produktbereich is
\* current and the identifier is two digits, and else leaves the current
\* Produktbereich as it was; it sets the current Produktgruppe, to the entry
\* of its identifier under the current Produktbereich, exactly when a
\* Produktbereich is current, no Produktgruppe is current and the identifier
\* is four digits, and else leaves the current Produktgruppe as it was.
C18_OneLevelDeeper ==
    (lastOp = "register_heading" /\ ~IsTHHHeading(lastText)) =>
        /\ headings.teilhaushalt = pre.headings.teilhaushalt
        /\ IF EntersProduktbereich(pre.headings, lastText)
           THEN /\ headings.produktbereich
                       = <<pre.headings.teilhaushalt[1], HeadingParts(lastText)[1]>>
                /\ HeadingParts(lastText)[1]
                       \in DOMAIN CurrentTeilhaushalt(headings).produktbereiche
                /\ CurrentProduktbereich(headings).id = HeadingParts(lastText)[1]
                /\ headings.produktgruppe = None
           ELSE headings.produktbereich = pre.headings.produktbereich
        /\ IF EntersProduktgruppe(pre.headings, lastText)
           THEN /\ headings.produktgruppe
                       = Append(pre.headings.produktbereich, HeadingParts(lastText)[1])
                /\ HeadingParts(lastText)[1]
                       \in DOMAIN CurrentProduktbereich(headings).produktgruppen
                /\ CurrentProduktgruppe(headings).id = HeadingParts(lastText)[1]
           ELSE headings.produktgruppe = pre.headings.produktgruppe

\* A two-digit heading was registered while a Produktgruppe was current and
\* left the scope as it was, after the scope had gone down level by level.
C18_Witness ==
    /\ lastOp = "register_heading"
    /\ IsDigitsId(lastText, 2)
    /\ pre.headings.produktgruppe # None
    /\ HeadingParts(lastText)[1] # pre.headings.produktbereich[2]
    /\ headings = pre.headings

\* A Produktbereich and a Produktgruppe were entered.
C18_WitnessProduktbereich ==
    /\ lastOp = "register_heading"
    /\ EntersProduktbereich(pre.headings, lastText)
    /\ headings.produktbereich # None

C18_WitnessProduktgruppe ==
    /\ lastOp = "register_heading"
    /\ EntersProduktgruppe(pre.headings, lastText)
    /\ headings.produktgruppe # None

\* C19: after a heading whose identifier begins with "THH" is registered,
\* no Produktbereich and no Produktgruppe is current, whatever was current
\* before and also when the Teilhaushalt entered was the current one.
C19_TeilhaushaltClearsFiner ==
    (lastOp = "register_heading" /\ IsTHHHeading(lastText)) =>
        /\ headings.teilhaushalt = <<THHKey(lastText)>>
        /\ headings.produktbereich = None
        /\ headings.produktgruppe = None

\* The THH heading of the current Teilhaushalt was registered while a
\* Produktgruppe was current.
C19_Witness ==
    /\ lastOp = "register_heading"
    /\ IsTHHHeading(lastText)
    /\ pre.headings.teilhaushalt = <<THHKey(lastText)>>
    /\ pre.headings.produktbereich # None
    /\ pre.headings.produktgruppe # None
    /\ headings.produktbereich = None

\* Every entry of registry old is an entry of registry new, with its id and
\* title and with every Produktbereich and Produktgruppe it held.
RegistryKept(old, new) ==
    /\ DOMAIN old \subseteq DOMAIN new
    /\ \A t \in DOMAIN old :
          /\ new[t].id = old[t].id
          /\ new[t].title = old[t].title
          /\ DOMAIN old[t].produktbereiche \subseteq DOMAIN new[t].produktbereiche
          /\ \A b \in DOMAIN old[t].produktbereiche :
                /\ new[t].produktbereiche[b].id = old[t].produktbereiche[b].id
                /\ new[t].produktbereiche[b].title
                       = old[t].produktbereiche[b].title
                /\ DOMAIN old[t].produktbereiche[b].produktgruppen
                       \subseteq DOMAIN new[t].produktbereiche[b].produktgruppen
                /\ \A g \in DOMAIN old[t].produktbereiche[b].produktgruppen :
                       new[t].produktbereiche[b].produktgruppen[g]
                           = old[t].produktbereiche[b].produktgruppen[g]

\* C20: reset leaves no Teilhaushalt, Produktbereich or Produktgruppe
\* current and the registry, with everything nested in it, as it was; and
\* after every operation the registry holds every entry it held before.
C20_ResetKeepsRegistry ==
    /\ lastOp = "reset" =>
          /\ headings.teilhaushalt = None
          /\ headings.produktbereich = None
          /\ headings.produktgruppe = None
          /\ headings.teilhaushalte = pre.headings.teilhaushalte
    /\ lastOp \in {"reset", "register_heading"} =>
          RegistryKept(pre.headings.teilhaushalte, headings.teilhaushalte)

\* reset was called while a Produktgruppe was current, with a registry that
\* holds two Teilhaushalte.
C20_Witness ==
    /\ lastOp = "reset"
    /\ pre.headings.produktgruppe # None
    /\ Cardinality(DOMAIN headings.teilhaushalte) >= 2
    /\ headings.teilhaushalt = None

(***************************************************************************)
(* Claims about the loop of Table._parse                                   *)
(***************************************************************************)
\* Whether a cell of the row under a value column of the grid's header holds
\* a text.
RowHasValue(grid, row) ==
    \E i \in 1..Len(HeaderOf(grid).value.value_columns) :
        /\ HasCell(row, HeaderOf(grid).value.value_columns[i].col)
        /\ Cell(row, HeaderOf(grid).value.value_columns[i].col) # ""

\* The number cell of the row reads as a number other than 0.
HasNumber(row) == isdigit(row[1]) /\ DigitsValue(row[1]) # 0

\* The rows the tolerant parser is to drop, to keep as a Position and to
\* keep as a child.
IsDroppedRow(grid, row) ==
    \/ ~RowHasValue(grid, row)
    \/ HasNumber(row) /\ Cell(row, SignColumn(grid)) = ""

IsKeptPosition(grid, row) ==
    /\ RowHasValue(grid, row)
    /\ HasNumber(row)
    /\ Cell(row, SignColumn(grid)) # ""

IsNumberlessValueRow(grid, row) ==
    /\ RowHasValue(grid, row)
    /\ row[1] = "" \/ (isdigit(row[1]) /\ DigitsValue(row[1]) = 0)

\* The grid is of the income/expense or the cash-flow layout.
IsTolerantLayout(grid) ==
    /\ Classify(grid).exc = ""
    /\ Classify(grid).value # "InvestitionsuebersichtTable"

\* Every data row of the grid is as wide as the header and is either a row
\* to drop or a Position whose cells read as a number and as amounts.
OnlyDropsAndPositions(grid) ==
    \A k \in 3..Len(grid) :
        /\ Len(grid[k]) = Len(grid[1])
        /\ IsDroppedRow(grid, grid[k]) \/ IsKeptPosition(grid, grid[k])
        /\ RowHasValue(grid, grid[k]) =>
               /\ grid[k][1] = "" \/ isdigit(grid[k][1])
               /\ AmountsOk(HeaderOf(grid).value, grid[k])

\* C21: in the income/expense and cash-flow layouts a row without a
\* populated value column and a row with a number and no sign are dropped
\* without a failure, and in a table parsed without failure the Positions
\* are the rows with values, a number and a sign, the children the rows
\* with values and no number, and no row without a number comes directly
\* after a dropped row: such a row is never made a child of the Position
\* before the dropped row.
C21_DropResetsPosition ==
    (lastOp = "table_from_data" /\ IsTolerantLayout(data)) =>
        /\ OnlyDropsAndPositions(data) => exc = ""
        /\ result # None =>
              /\ Len(result[1].items)
                     = Cardinality({k \in 3..Len(data) :
                                       IsKeptPosition(data, data[k])})
              /\ SumLen([i \in 1..Len(result[1].items) |->
                            result[1].items[i].children])
                     = Cardinality({k \in 3..Len(data) :
                                       IsNumberlessValueRow(data, data[k])})
              /\ \A k \in 3..(Len(data) - 1) :
                     ~(/\ IsDroppedRow(data, data[k])
                       /\ IsNumberlessValueRow(data, data[k + 1]))

\* A Position, a row without values and a row without a number: parsing
\* failed at the last row instead of giving the Position a child.
C21_Witness ==
    /\ lastOp = "table_from_data"
    /\ data = DroppedRowGrid
    /\ exc = "TypeError"
    /\ result = None

\* The same after a row with a number and no sign.
C21_WitnessUnsigned ==
    /\ lastOp = "table_from_data"
    /\ data = UnsignedRowGrid
    /\ exc = "TypeError"

\* A table was built from a Position and a row with a number and no sign.
C21_WitnessDropped ==
    /\ lastOp = "table_from_data"
    /\ IsTolerantLayout(data)
    /\ Len(data) = 4
    /\ IsKeptPosition(data, data[3])
    /\ RowHasValue(data, data[4])
    /\ IsDroppedRow(data, data[4])
    /\ result # None
    /\ Len(result[1].items) = 1

(***************************************************************************)
(* The invariant of the heading state                                      *)
(***************************************************************************)
\* C22: in every state of the heading state, a current Produktgruppe comes
\* with a current Produktbereich and a current Produktbereich with a current
\* Teilhaushalt; the current Teilhaushalt is the entry the registry holds
\* under its id, the current Produktbereich the entry the current
\* Teilhaushalt holds under its id, and the current Produktgruppe the entry
\* the current Produktbereich holds under its id.
C22_ScopeNested ==
    /\ headings.produktgruppe # None => headings.produktbereich # None
    /\ headings.produktbereich # None => headings.teilhaushalt # None
    /\ headings.teilhaushalt # None =>
          /\ headings.teilhaushalt[1] \in DOMAIN headings.teilhaushalte
          /\ CurrentTeilhaushalt(headings).id = headings.teilhaushalt[1]
    /\ headings.produktbereich # None =>
          /\ headings.produktbereich[1] = headings.teilhaushalt[1]
          /\ headings.produktbereich[2]
                 \in DOMAIN CurrentTeilhaushalt(headings).produktbereiche
          /\ CurrentProduktbereich(headings)
                 = CurrentTeilhaushalt(headings)
                       .produktbereiche[headings.produktbereich[2]]
          /\ CurrentProduktbereich(headings).id = headings.produktbereich[2]
    /\ headings.produktgruppe # None =>
          /\ SubSeq(headings.produktgruppe, 1, 2) = headings.produktbereich
          /\ headings.produktgruppe[3]
                 \in DOMAIN CurrentProduktbereich(headings).produktgruppen
          /\ CurrentProduktgruppe(headings)
                 = CurrentProduktbereich(headings)
                       .produktgruppen[headings.produktgruppe[3]]
          /\ CurrentProduktgruppe(headings).id = headings.produktgruppe[3]

\* A Produktgruppe was entered after a reset, in a registry of two
\* Teilhaushalte that already held it.
C22_Witness ==
    /\ lastOp = "register_heading"
    /\ headings.produktgruppe # None
    /\ pre.headings.produktgruppe = None
    /\ headings.teilhaushalte = pre.headings.teilhaushalte
    /\ Cardinality(DOMAIN headings.teilhaushalte) >= 2

=============================================================================
